---- MODULE Spec2Model ----
(***************************************************************************)
(* Calendar synchronisation and caching subsystem of ai-calendar.          *)
(*                                                                         *)
(* One user's calendar is modelled: every key of the store (Mongo          *)
(* documents keyed by user_sub) and of the cache (Redis keys carrying the  *)
(* user id) is scoped by the user, so users do not interact.  The user's   *)
(* document in the users collection exists throughout.                     *)
(*                                                                         *)
(* State: the persistent store (calendarevents document), the Redis cache  *)
(* (event list, per-event entries, sync token), the remote provider's      *)
(* calendar, the webhook subscriptions, and a record of the last handler   *)
(* call, which the properties below are stated on.                         *)
(***************************************************************************)
EXTENDS Naturals, Integers, Sequences, FiniteSets, TLC

VARIABLES
    store,      \* calendarevents document of the user
    cache,      \* Redis keys of the user
    remote,     \* the provider's events, by id
    clock,      \* the provider's change counter (sync tokens and etags are its values)
    subs,       \* webhook_subscriptions collection: channel id -> record
    lastOp,     \* what the last handler call did
    since,      \* what the environment did after that call returned
    steps,      \* numbers of handler calls, key expiries and channel setups so far
    now,        \* wall-clock time, in units of 12 hours
    watching,   \* channel ids the provider holds a push channel for
    queue,      \* jobs the receipt endpoint sent to the worker, oldest first
    maintenance_task,  \* the maintenance task the application started
    redis,      \* the keys of all users in the cache server
    tasks       \* the concurrent handler calls: where each stands, what it holds

vars == <<store, cache, remote, clock, subs, lastOp, since, steps, now, watching, queue, maintenance_task, redis, tasks>>

---------------------------------------------------------------------------
(* Bounds *)

\* Number of changes the remote calendar goes through (counting the initial one).
MaxClock == 3

\* Number of handler calls in a run, and of cache keys that reach their TTL.
MaxOps == 2
MaxExpiries == 1

\* Number of handler calls in a run in which the provider may fail.
MaxFaultOps == 1
\* Cache calls in a run of SpecCache, and the positions a client command
\* may fail at.
MaxCacheOps == 2
MaxCacheSteps == 6
\* Notifications received, and job attempts run, in a run of SpecReceipt.
MaxReceipts == 2
MaxJobs == 4
\* Items in a bulk update.
MaxBatch == 2
\* Lengths of the reply script and of the refresh script of a guarded call.
MaxReplies == 3
MaxRefreshes == 2
\* Calls on the cache server in a run of SpecRedis.
MaxRedisOps == 1

EventIds == {"E1", "E2"}
\* Order in which the provider lists events.
EventOrder == <<"E1", "E2">>

\* ch1 is the user's subscription, ch9 a channel nobody subscribed.
Channels == {"ch1", "ch9"}
UserId == "u1"

\* Number of channel ids setup_calendar_webhook draws (uuid4) in a run, and
\* the ids it draws, in order.
MaxSetups == 2
FreshChannels == <<"n1", "n2", "n3", "n4">>
AllChannels == Channels \cup {FreshChannels[k] : k \in 1..Len(FreshChannels)}
\* Order in which find() returns the subscriptions (insertion order).
ChannelOrder == <<"ch1", "ch9", "n1", "n2", "n3", "n4">>

\* Time is counted in units of 12 hours, up to MaxNow.
MaxNow == 3
\* Sweeps renew what expires within 24 hours; a channel is set up for 6 days.
RefreshThreshold == 2
ChannelLifetime == 12

---------------------------------------------------------------------------
(* Event records *)

Event(id, etag, status, summary, location) ==
    [id |-> id, etag |-> etag, status |-> status, summary |-> summary, location |-> location]

\* Python's None for an event-valued result.
NoEvent == Event("None", 0, "none", "", "")

\* An id the provider has never held.
AbsentEvent(id) == Event(id, 0, "absent", "", "")

\* Python's None for a sync token (falsy, like the empty string).
NoToken == 0

\* The JSON document of a list response: {"items": [...], "nextSyncToken": ...}.
Data(items, tok) == [present |-> TRUE, items |-> items, nextSyncToken |-> tok]

\* None where a list document is expected.
NoData == [present |-> FALSE, items |-> <<>>, nextSyncToken |-> NoToken]

Ids(items) == {items[k].id : k \in 1..Len(items)}

HasId(items, id) == \E k \in 1..Len(items) : items[k].id = id

\* First element with the id (for ... if v["id"] == event_id: return).
FirstWithId(items, id) ==
    items[CHOOSE k \in 1..Len(items) :
            /\ items[k].id = id
            /\ \A m \in 1..(k-1) : items[m].id # id]

NoDuplicateIds(items) ==
    \A k, m \in 1..Len(items) : items[k].id = items[m].id => k = m

---------------------------------------------------------------------------
(* The remote calendar provider (list-changes, single-event GET, PATCH).   *)
(* An event's etag is the value of the change counter at its last change;  *)
(* a sync token is the value of the counter when the list was answered.    *)

\* The events of the calendar in listing order.
RemoteSeq(rem) == [k \in 1..Len(EventOrder) |-> rem[EventOrder[k]]]

IsLive(e) == e.status = "confirmed"

\* A full list holds the live events; a list made with a cursor holds what
\* changed after it, deletions included (status = "cancelled").
ChangedSince(rem, tok) ==
    LET Changed(e) == e.status # "absent" /\ e.etag > tok
    IN SelectSeq(RemoteSeq(rem), Changed)

ListItems(rem, tok) ==
    IF tok = NoToken THEN SelectSeq(RemoteSeq(rem), IsLive) ELSE ChangedSince(rem, tok)

\* Fields an update may carry; None is "NoneField".
FieldNames == {"summary", "location"}
NoneField == "NoneField"

ApplyPayload(e, p) ==
    [e EXCEPT !.summary = IF "summary" \in DOMAIN p THEN p["summary"] ELSE @,
              !.location = IF "location" \in DOMAIN p THEN p["location"] ELSE @]

Body(code, data, ev) == [status_code |-> code, data |-> data, event |-> ev]

\* aiohttp response as the guard sees it, with the provider's state after it.
Resp(status, text401, body, rem, clk) ==
    [status |-> status, text401 |-> text401, body |-> body, remote |-> rem, clock |-> clk]

ListReq(tok) == [kind |-> "list", token |-> tok, id |-> "None", etag |-> 0, payload |-> <<>>]
GetReq(id, etag) == [kind |-> "get", token |-> NoToken, id |-> id, etag |-> etag, payload |-> <<>>]
PatchReq(id, etag, p) == [kind |-> "patch", token |-> NoToken, id |-> id, etag |-> etag, payload |-> p]
WatchReq(channel) == [kind |-> "watch", token |-> NoToken, id |-> channel, etag |-> 0, payload |-> <<>>]
StopReq(channel) == [kind |-> "stop", token |-> NoToken, id |-> channel, etag |-> 0, payload |-> <<>>]

\* What the provider answers when it serves the request.
NaturalReply(req, rem, clk) ==
    CASE req.kind = "list" ->
            Resp(200, FALSE, Body(0, Data(ListItems(rem, req.token), clk), NoEvent), rem, clk)
      [] req.kind = "get" ->
            IF rem[req.id].status = "absent"
            THEN Resp(404, FALSE, Body(404, NoData, NoEvent), rem, clk)
            ELSE IF req.etag # 0 /\ req.etag = rem[req.id].etag
            THEN Resp(304, FALSE, Body(304, NoData, NoEvent), rem, clk)
            ELSE Resp(200, FALSE, Body(0, NoData, rem[req.id]), rem, clk)
      [] req.kind = "patch" ->
            IF rem[req.id].status = "absent"
            THEN Resp(404, FALSE, Body(404, NoData, NoEvent), rem, clk)
            ELSE IF rem[req.id].status = "cancelled"
            THEN Resp(410, FALSE, Body(410, NoData, NoEvent), rem, clk)
            ELSE IF req.etag # rem[req.id].etag
            THEN Resp(412, FALSE, Body(412, NoData, NoEvent), rem, clk)
            ELSE LET e == [ApplyPayload(rem[req.id], req.payload) EXCEPT !.etag = clk + 1]
                 IN Resp(200, FALSE, Body(0, NoData, e), [rem EXCEPT ![req.id] = e], clk + 1)
      [] req.kind = "watch" -> Resp(200, FALSE, Body(0, NoData, NoEvent), rem, clk)
      [] req.kind = "stop" -> Resp(204, FALSE, Body(0, NoData, NoEvent), rem, clk)

\* A reply script names, request by request, what the provider does instead
\* of serving the request; past its end the provider serves.
\*   "nat"  serve the request          "401"  access token rejected
\*   "410"  cursor no longer valid     "500"  server error
\*   "500u" server error whose payload mentions "unauthorized"
ReplyAt(script, k) == IF k <= Len(script) THEN script[k] ELSE "nat"

ProviderReply(req, sym, rem, clk) ==
    CASE sym = "401" -> Resp(401, FALSE, Body(401, NoData, NoEvent), rem, clk)
      [] sym = "410" /\ req.kind = "list" /\ req.token # NoToken ->
            Resp(410, FALSE, Body(410, NoData, NoEvent), rem, clk)
      [] sym = "500" -> Resp(500, FALSE, Body(500, NoData, NoEvent), rem, clk)
      [] sym = "500u" -> Resp(500, TRUE, Body(500, NoData, NoEvent), rem, clk)
      [] OTHER -> NaturalReply(req, rem, clk)

\* Outcome of the k-th token refresh: "ok", "fail" (token endpoint refuses),
\* "failu" (refuses with a payload mentioning "unauthorized").
RefreshAt(script, k) == IF k <= Len(script) THEN script[k] ELSE "ok"

---------------------------------------------------------------------------
(* TokenRefreshGuard: CalendarService._make_google_api_request and the two *)
(* methods it recurses through.  A call runs in a world w: the store, the  *)
(* cache, the provider's state, and the numbers i of requests sent and j   *)
(* of token refreshes made so far by the running handler.  env holds the   *)
(* reply script and the refresh script of the handler call.  access_token  *)
(* is the token in the user's stored credential (0 when the handler        *)
(* starts, k once the k-th refresh has written its token), and carried     *)
(* lists, request by request, the token the request carried.               *)

World(st, ca, rem, clk) ==
    [store |-> st, cache |-> ca, remote |-> rem, clock |-> clk, i |-> 0, j |-> 0,
     access_token |-> 0, refresh_failed |-> FALSE, carried |-> <<>>]

Env(replies, refreshes) == [replies |-> replies, refreshes |-> refreshes]

\* A call that returned res, and one that raised HTTPException(status); text401
\* says whether the exception's detail mentions "401" or "unauthorized".
Return(body, w) == [raised |-> FALSE, status |-> 200, text401 |-> FALSE, body |-> body, w |-> w]
Raise(status, text401, w) ==
    [raised |-> TRUE, status |-> status, text401 |-> text401,
     body |-> Body(status, NoData, NoEvent), w |-> w]

\* "401" in str(e) or "unauthorized" in str(e).lower(), where str(e) of an
\* HTTPException is "<status_code>: <detail>".
Mentions401(r) == r.status = 401 \/ r.text401

RECURSIVE make_google_api_request(_, _, _, _)
RECURSIVE handle_401_error(_, _, _, _)

\* GoogleOauthService.refresh_access_token: any failure leaves as
\* HTTPException(500, detail=str(e)).
refresh_access_token(env, w) ==
    LET out == RefreshAt(env.refreshes, w.j + 1)
        w1 == [w EXCEPT !.j = @ + 1]
    IN IF out = "ok"
       THEN \* update_user_success: $set access_token in the user's document
            Return(Body(0, NoData, NoEvent), [w1 EXCEPT !.access_token = w1.j])
       ELSE Raise(500, out = "failu", [w1 EXCEPT !.refresh_failed = TRUE])

\* _handle_401_error without the test of retry_count.
handle_401_error_unbounded(req, env, w, retry_count) ==
    LET Retry(rf) ==
            IF rf.raised THEN rf
            ELSE make_google_api_request(req, env, rf.w, retry_count + 1)
    IN Retry(refresh_access_token(env, w))

handle_401_error(req, env, w, retry_count) ==
    IF retry_count >= 1
    THEN Raise(401, FALSE, w)
    ELSE LET Retry(rf) ==
                 IF rf.raised THEN rf
                 ELSE make_google_api_request(req, env, rf.w, retry_count + 1)
         IN Retry(refresh_access_token(env, w))

handle_google_api_response(resp, req, env, w, retry_count) ==
    IF resp.status = 401 THEN handle_401_error(req, env, w, retry_count)
    ELSE IF resp.status = 204 THEN Return(Body(0, NoData, NoEvent), w)
    ELSE IF resp.status \notin {200, 201, 204} THEN Raise(resp.status, resp.text401, w)
    ELSE Return(resp.body, w)

make_google_api_request(req, env, w, retry_count) ==
    LET \* get_access_and_email: the Authorization header is read from the store
        Carried == [token |-> w.access_token, replay |-> retry_count > 0,
                    failed |-> w.refresh_failed]
        Sent(resp) == [w EXCEPT !.i = @ + 1, !.remote = resp.remote, !.clock = resp.clock,
                                !.carried = Append(@, Carried)]
        Handle(resp) == handle_google_api_response(resp, req, env, Sent(resp), retry_count)
        Except(r) == IF r.raised /\ Mentions401(r)
                     THEN handle_401_error(req, env, r.w, retry_count)
                     ELSE r
    IN Except(Handle(ProviderReply(req, ReplyAt(env.replies, w.i + 1), w.remote, w.clock)))

---------------------------------------------------------------------------
(* PersistentStore: CalendarRepo on the user's calendarevents document     *)
(* {"user_sub": ..., "data": <list response>}.                             *)

NoDoc == NoData

\* replace_one(..., upsert=True); ValueError when nothing was modified and
\* nothing was upserted, i.e. when the stored document already equals data.
insert_events_fails(st, data) == st.present /\ st = data

insert_events(st, data) == data

\* update_one without upsert: a user without a document keeps none.
update_synctoken(st, tok) ==
    IF st.present THEN [st EXCEPT !.nextSyncToken = tok] ELSE st

\* The stored cursor is never found.
get_synctoken_if_exists_none(st) == NoToken

get_synctoken_if_exists(st) == IF st.present THEN st.nextSyncToken ELSE NoToken

\* One UpdateOne per item, filter data.items.id = id, $set data.items.$[elem]
\* with arrayFilters elem.id = id: every element with the id is replaced, an
\* id that is not stored matches no document and writes nothing.
RECURSIVE update_items(_, _)
update_items(st, items) ==
    IF items = <<>> THEN st
    ELSE LET u == Head(items)
             st1 == [st EXCEPT !.items =
                        [k \in 1..Len(st.items) |->
                            IF st.items[k].id = u.id THEN u ELSE st.items[k]]]
         IN update_items(IF st.present THEN st1 ELSE st, Tail(items))

\* update_one with the positional operator: the first element with the id.
update_item(st, ev) ==
    IF st.present /\ HasId(st.items, ev.id)
    THEN LET pos == CHOOSE k \in 1..Len(st.items) :
                        /\ st.items[k].id = ev.id
                        /\ \A m \in 1..(k-1) : st.items[m].id # ev.id
         IN [st EXCEPT !.items[pos] = ev]
    ELSE st

\* get_etag_from_id / get_event_from_id raise ValueError without a document
\* or without the event.
repo_event_missing(st, id) == ~st.present \/ ~HasId(st.items, id)

get_etag_from_id(st, id) == FirstWithId(st.items, id).etag

repo_get_event_from_id(st, id) == FirstWithId(st.items, id)

---------------------------------------------------------------------------
(* CacheLayer: CalendarCacheService on the user's Redis keys               *)
(*   events      calendar:events:<user>          (NoData when absent)      *)
(*   event[id]   calendar:event:<user>:<id>      (NoEvent when absent)     *)
(*   sync_token  calendar:sync_token:<user>      (NoToken when absent)     *)
(* Values are stored as JSON text of dictionaries of strings and numbers,  *)
(* which json.loads reads back unchanged.                                  *)

EmptyCache ==
    [events |-> NoData, event |-> [id \in EventIds |-> NoEvent], sync_token |-> NoToken]

cache_individual_events(ca, items) ==
    [ca EXCEPT !.event =
        [id \in EventIds |-> IF HasId(items, id)
                             THEN items[CHOOSE k \in 1..Len(items) :
                                          /\ items[k].id = id
                                          /\ \A m \in (k+1)..Len(items) : items[m].id # id]
                             ELSE @[id]]]

\* Only the per-event keys are written.
cache_user_events_keeps_list(ca, data) == cache_individual_events(ca, data.items)

cache_user_events(ca, data) ==
    cache_individual_events([ca EXCEPT !.events = data], data.items)

get_user_events(ca) == ca.events

cache_single_event(ca, ev) == [ca EXCEPT !.event[ev.id] = ev]

get_single_event(ca, id) == ca.event[id]

\* The per-event key is left as it was; only the cached list is updated.
update_event_in_cache_list_only(ca, ev) ==
    IF ca.events.present
    THEN IF HasId(ca.events.items, ev.id)
         THEN [ca EXCEPT !.events.items =
                  [k \in 1..Len(@) |-> IF @[k].id = ev.id THEN ev ELSE @[k]]]
         ELSE [ca EXCEPT !.events.items = Append(@, ev)]
    ELSE ca

\* The event is appended to the cached list whether or not its id is there.
update_event_in_cache_appends(ca, ev) ==
    IF ca.events.present
    THEN [cache_single_event(ca, ev) EXCEPT !.events.items = Append(@, ev)]
    ELSE cache_single_event(ca, ev)

update_event_in_cache(ca, ev) ==
    LET c1 == cache_single_event(ca, ev)
        items == c1.events.items
    IN IF c1.events.present
       THEN IF HasId(items, ev.id)
            THEN LET pos == CHOOSE k \in 1..Len(items) :
                                /\ items[k].id = ev.id
                                /\ \A m \in 1..(k-1) : items[m].id # ev.id
                 IN [c1 EXCEPT !.events.items[pos] = ev]
            ELSE [c1 EXCEPT !.events.items = Append(items, ev)]
       ELSE c1

remove_event_from_cache(ca, id) ==
    LET c1 == [ca EXCEPT !.event[id] = NoEvent]
        Keep(e) == e.id # id
    IN IF c1.events.present
       THEN [c1 EXCEPT !.events.items = SelectSeq(c1.events.items, Keep)]
       ELSE c1

cache_sync_token(ca, tok) == [ca EXCEPT !.sync_token = tok]

get_sync_token(ca) == ca.sync_token

invalidate_user_cache(ca) == EmptyCache

---------------------------------------------------------------------------
(* The key space of the cache server.  A key is the sequence of a prefix,   *)
(* the characters of the user id and, for a single event, ":" and the       *)
(* event id.  The server holds the set of keys that are present.            *)

PREFIX_EVENTS == "calendar:events:"
PREFIX_EVENT == "calendar:event:"
PREFIX_SYNC_TOKEN == "calendar:sync_token:"
PREFIX_USER_CALENDARS == "calendar:user_calendars:"

\* User ids, as sequences of characters; one is a prefix of the other.
Users == {<<"1">>, <<"1", "2">>}

EventsKey(user_id) == <<PREFIX_EVENTS>> \o user_id
EventKey(user_id, event_id) == <<PREFIX_EVENT>> \o user_id \o <<":", event_id>>
SyncTokenKey(user_id) == <<PREFIX_SYNC_TOKEN>> \o user_id
UserCalendarsKey(user_id) == <<PREFIX_USER_CALENDARS>> \o user_id

\* The keys the CacheLayer writes for a user.
UserKeys(user_id) ==
    {EventsKey(user_id), SyncTokenKey(user_id), UserCalendarsKey(user_id)}
        \cup {EventKey(user_id, id) : id \in EventIds}
AllKeys == UNION {UserKeys(u) : u \in Users}

\* f"{PREFIX_EVENT}{user_id}*": no separator after the user id.
EventPattern_no_separator(user_id) == <<PREFIX_EVENT>> \o user_id \o <<"*">>

\* f"{PREFIX_EVENT}{user_id}:*"
EventPattern(user_id) == <<PREFIX_EVENT>> \o user_id \o <<":", "*">>

\* KEYS pattern, for a pattern whose only wildcard is a trailing "*".
Matches(key, pattern) ==
    LET stem == SubSeq(pattern, 1, Len(pattern) - 1)
    IN Len(key) >= Len(stem) /\ SubSeq(key, 1, Len(stem)) = stem

\* invalidate_user_cache, every command succeeding: the patterns in order,
\* KEYS and DELETE for the one with "*", DELETE of the key for the others.
invalidate_user_keys(rd, user_id) ==
    LET rd1 == rd \ {EventsKey(user_id)}
        keys == {k \in rd1 : Matches(k, EventPattern(user_id))}
        rd2 == rd1 \ keys
        rd3 == rd2 \ {SyncTokenKey(user_id)}
    IN rd3 \ {UserCalendarsKey(user_id)}

---------------------------------------------------------------------------
(* CacheLayer over a Redis client that may fail.  Each method runs its     *)
(* client commands in order inside try/except Exception; fail is the       *)
(* position of the command that raises (0, or a position the method does   *)
(* not reach: none does).  A result is the cache the commands that ran     *)
(* left, what the caller gets (ret, or raised), and whether a command      *)
(* raised (failed).                                                        *)

Throw(ca) == [ca |-> ca, ret |-> "exception", raised |-> TRUE, failed |-> TRUE]
Gives(ca, ret, failed) == [ca |-> ca, ret |-> ret, raised |-> FALSE, failed |-> failed]

\* except Exception as e: print(...); return value
Swallow(r, value) == IF r.raised THEN [r EXCEPT !.ret = value, !.raised = FALSE] ELSE r

\* _cache_individual_events: pipe.execute()
try_cache_individual_events(ca, items, fail) ==
    Swallow(IF fail = 1 THEN Throw(ca)
            ELSE Gives(cache_individual_events(ca, items), "None", FALSE),
            "None")

\* cache_user_events: setex, then _cache_individual_events
try_cache_user_events(ca, data, fail) ==
    LET Rest(r) == IF r.raised THEN r ELSE Gives(r.ca, "True", r.failed)
    IN Swallow(IF fail = 1 THEN Throw(ca)
               ELSE Rest(try_cache_individual_events([ca EXCEPT !.events = data],
                                                     data.items, fail - 1)),
               "False")

\* get_user_events: get
try_get_user_events(ca, fail) ==
    Swallow(IF fail = 1 THEN Throw(ca)
            ELSE Gives(ca, IF get_user_events(ca).present THEN "data" ELSE "None", FALSE),
            "None")

\* cache_single_event: setex
try_cache_single_event(ca, ev, fail) ==
    Swallow(IF fail = 1 THEN Throw(ca)
            ELSE Gives(cache_single_event(ca, ev), "True", FALSE),
            "False")

\* get_single_event: get
try_get_single_event(ca, id, fail) ==
    Swallow(IF fail = 1 THEN Throw(ca)
            ELSE Gives(ca, IF get_single_event(ca, id) # NoEvent THEN "data" ELSE "None",
                       FALSE),
            "None")

\* update_event_in_cache: cache_single_event (its result is not read), get
\* of the list, setex of the list when it is cached.
try_update_event_in_cache(ca, ev, fail) ==
    LET Rest(r1) ==
            IF r1.raised THEN r1
            ELSE IF fail = 2 THEN Throw(r1.ca)
            ELSE IF ~r1.ca.events.present THEN Gives(r1.ca, "True", r1.failed)
            ELSE IF fail = 3 THEN Throw(r1.ca)
            ELSE Gives([update_event_in_cache(r1.ca, ev) EXCEPT !.event = r1.ca.event],
                       "True", r1.failed)
    IN Swallow(Rest(try_cache_single_event(ca, ev, fail)), "False")

\* remove_event_from_cache: delete, get of the list, setex of the list
try_remove_event_from_cache(ca, id, fail) ==
    LET Rest(c1) ==
            IF fail = 2 THEN Throw(c1)
            ELSE IF ~c1.events.present THEN Gives(c1, "True", FALSE)
            ELSE IF fail = 3 THEN Throw(c1)
            ELSE Gives(remove_event_from_cache(ca, id), "True", FALSE)
    IN Swallow(IF fail = 1 THEN Throw(ca) ELSE Rest([ca EXCEPT !.event[id] = NoEvent]),
               "False")

\* cache_sync_token: setex
try_cache_sync_token(ca, tok, fail) ==
    Swallow(IF fail = 1 THEN Throw(ca) ELSE Gives(cache_sync_token(ca, tok), "True", FALSE),
            "False")

\* get_sync_token: get
try_get_sync_token(ca, fail) ==
    Swallow(IF fail = 1 THEN Throw(ca)
            ELSE Gives(ca, IF get_sync_token(ca) # NoToken THEN "data" ELSE "None", FALSE),
            "None")

\* invalidate_user_cache: delete of the list, keys of the events, delete of
\* those keys when there are any, delete of the cursor, delete of the
\* calendar list.
try_invalidate_user_cache(ca, fail) ==
    LET c1 == [ca EXCEPT !.events = NoData]
        c2 == [c1 EXCEPT !.event = [id \in EventIds |-> NoEvent]]
        k  == IF \E id \in EventIds : ca.event[id] # NoEvent THEN 3 ELSE 2
    IN Swallow(IF fail = 1 THEN Throw(ca)
               ELSE IF fail = 2 THEN Throw(c1)
               ELSE IF k = 3 /\ fail = 3 THEN Throw(c1)
               ELSE IF fail = k + 1 THEN Throw(c2)
               ELSE IF fail = k + 2 THEN Throw(invalidate_user_cache(ca))
               ELSE Gives(invalidate_user_cache(ca), "True", FALSE),
               "False")

\* get_cache_stats without its except clause.
try_get_cache_stats_raises(ca, fail) ==
    IF fail \in 1..6 THEN Throw(ca) ELSE Gives(ca, "stats", FALSE)

\* get_cache_stats: three exists, keys, and a ttl for each key that exists
try_get_cache_stats(ca, fail) ==
    LET commands == 4 + (IF ca.events.present THEN 1 ELSE 0)
                      + (IF ca.sync_token # NoToken THEN 1 ELSE 0)
    IN Swallow(IF fail \in 1..commands THEN Throw(ca) ELSE Gives(ca, "stats", FALSE),
               "empty")

---------------------------------------------------------------------------
(* SyncCoordinator: CalendarService.  A handler maps a world to the world  *)
(* it leaves and to what its caller gets: ok (returned) or not (raised an  *)
(* HTTPException with status http).                                        *)

\* get_all_user_calendar_events
SyncResult(w, ok, http, path, token, res, ret) ==
    [w |-> w, ok |-> ok, http |-> http, path |-> path, token |-> token, res |-> res, ret |-> ret]

\* The cache loop over the items of an incremental response.
RECURSIVE cache_apply_items(_, _)
cache_apply_items(ca, items) ==
    IF items = <<>> THEN ca
    ELSE LET item == Head(items)
         IN cache_apply_items(
                IF item.status = "cancelled"
                THEN remove_event_from_cache(ca, item.id)
                ELSE update_event_in_cache(ca, item),
                Tail(items))

\* The cursor is kept when the sync is forced.
resolve_sync_token_keeps_cursor(w, forceFullSync) ==
    IF get_sync_token(w.cache) = NoToken
    THEN get_synctoken_if_exists(w.store)
    ELSE get_sync_token(w.cache)

\* The cursor the list call is made with: cache, then store; none when forced.
resolve_sync_token(w, forceFullSync) ==
    LET cached == get_sync_token(w.cache)
        token == IF cached = NoToken THEN get_synctoken_if_exists(w.store) ELSE cached
    IN IF forceFullSync THEN NoToken ELSE token

\* Every list response is stored as a full one (no test of the cursor).
apply_list_response_as_full(w, token, res, fullResponse) ==
    SyncResult([w EXCEPT !.store = insert_events(@, res),
                         !.cache = cache_sync_token(cache_user_events(@, res),
                                                    res.nextSyncToken)],
               TRUE, 200, IF token = NoToken THEN "full" ELSE "incremental",
               token, res, res)

\* Lines 702-736: what the handler does with a list response it accepted.
apply_list_response(w, token, res, fullResponse) ==
    LET w1 == IF res.nextSyncToken # NoToken
              THEN [w EXCEPT !.store = update_synctoken(@, res.nextSyncToken),
                             !.cache = cache_sync_token(@, res.nextSyncToken)]
              ELSE w
        path == IF token = NoToken THEN "full" ELSE "incremental"
    IN IF token = NoToken /\ insert_events_fails(w1.store, res)
       THEN SyncResult(w1, FALSE, 404, path, token, res, NoData)
       ELSE LET w2 == IF token = NoToken
                      THEN [w1 EXCEPT !.store = insert_events(@, res),
                                      !.cache = cache_user_events(@, res)]
                      ELSE w1
                w3 == IF res.items # <<>> /\ token # NoToken
                      THEN [w2 EXCEPT !.store = update_items(@, res.items),
                                      !.cache = cache_apply_items(@, res.items)]
                      ELSE w2
            IN IF fullResponse
               THEN IF token = NoToken
                    THEN SyncResult(w3, TRUE, 200, path, token, res, res)
                    ELSE IF ~w3.store.present
                    THEN SyncResult(w3, FALSE, 404, path, token, res, NoData)
                    ELSE SyncResult([w3 EXCEPT !.cache = cache_user_events(@, w3.store)],
                                    TRUE, 200, path, token, res, w3.store)
               ELSE SyncResult(w3, TRUE, 200, path, token, res, res)

RECURSIVE get_all_user_calendar_events(_, _, _, _)
get_all_user_calendar_events(w, forceFullSync, fullResponse, env) ==
    LET cached_events == get_user_events(w.cache)
    IN IF ~forceFullSync /\ cached_events.present /\ fullResponse
       THEN SyncResult(w, TRUE, 200, "cached", NoToken, NoData, cached_events)
       ELSE LET Listed(token, r) ==
                    IF r.raised
                    THEN SyncResult(r.w, FALSE, r.status,
                                    IF token = NoToken THEN "full" ELSE "incremental",
                                    token, NoData, NoData)
                    ELSE IF r.body.status_code = 410
                    THEN get_all_user_calendar_events(r.w, TRUE, fullResponse, env)
                    ELSE apply_list_response(r.w, token, r.body.data, fullResponse)
                List(token) ==
                    Listed(token, make_google_api_request(ListReq(token), env, w, 0))
            IN List(resolve_sync_token(w, forceFullSync))

\* dict({"status": tag}, **event): the event's own keys win.
Tagged(tag, ev) == [ev EXCEPT !.status = IF ev.status = "none" THEN tag ELSE @]

\* get_event_from_id
EventResult(w, ok, http, path, ret) ==
    [w |-> w, ok |-> ok, http |-> http, path |-> path, ret |-> ret]

get_event_from_id(w, event_id, env) ==
    LET cached_event == get_single_event(w.cache, event_id)
    IN IF cached_event # NoEvent
       THEN EventResult(w, TRUE, 200, "from_cache", Tagged("from_cache", cached_event))
       ELSE IF repo_event_missing(w.store, event_id)
       THEN EventResult(w, FALSE, 404, "no etag", NoEvent)
       ELSE LET etag == get_etag_from_id(w.store, event_id)
                Got(r) ==
                    IF r.raised
                    THEN EventResult(r.w, FALSE, r.status, "request", NoEvent)
                    ELSE IF r.body.status_code = 304
                    THEN LET event_data == repo_get_event_from_id(r.w.store, event_id)
                         IN EventResult([r.w EXCEPT !.cache = cache_single_event(@, event_data)],
                                        TRUE, 200, "not changed",
                                        Tagged("not changed", event_data))
                    ELSE LET res == r.body.event
                         IN EventResult([r.w EXCEPT !.store = update_item(@, res),
                                                    !.cache = update_event_in_cache(@, res)],
                                        TRUE, 200, "updated", Tagged("updated", res))
            IN Got(make_google_api_request(GetReq(event_id, etag), env, w, 0))

\* UpdateEventRequest.model_dump(exclude_none=True)
model_dump(update_data) ==
    [f \in {g \in FieldNames : update_data[g] # NoneField} |-> update_data[f]]

\* update_event; sent is the If-Match etag of the PATCH (0: no PATCH sent),
\* cause the status of the exception the handler turned into its own, cur the
\* current_event it read.
UpdateResult(w, ok, http, cause, sent, cur) ==
    [w |-> w, ok |-> ok, http |-> http, cause |-> cause, sent |-> sent, cur |-> cur]

update_event(w, event_id, update_data, env) ==
    LET update_payload == model_dump(update_data)
        Patched(current_event, r) ==
            IF r.raised
            THEN UpdateResult(r.w, FALSE, 500, r.status, current_event.etag, current_event)
            ELSE IF r.body.status_code = 412
            THEN UpdateResult(r.w, FALSE, 500, 409, current_event.etag, current_event)
            ELSE IF r.body.status_code = 404
            THEN UpdateResult(r.w, FALSE, 500, 404, current_event.etag, current_event)
            ELSE LET res == r.body.event
                 IN UpdateResult([r.w EXCEPT !.store = update_item(@, res),
                                             !.cache = update_event_in_cache(@, res)],
                                 TRUE, 200, 200, current_event.etag, current_event)
        Read(cur) ==
            IF ~cur.ok
            THEN UpdateResult(cur.w, FALSE, 500, cur.http, 0, cur.ret)
            ELSE IF DOMAIN update_payload = {}
            THEN UpdateResult(cur.w, FALSE, 500, 400, 0, cur.ret)
            ELSE Patched(cur.ret,
                         make_google_api_request(
                             PatchReq(event_id, cur.ret.etag, update_payload), env, cur.w, 0))
    IN Read(get_event_from_id(w, event_id, env))

\* bulk_update_events.  An item is a dictionary with an event_id (an id, or
\* JSON null) and update_data; a result is an EventUpdateResponse.
NullId == "null"
Item(event_id, update_data) == [event_id |-> event_id, update_data |-> update_data]

\* EventUpdateResponse(status=..., event_id=...): event_id is declared str,
\* so the model's validation raises for None.
EventUpdateResponse(status, event_id) ==
    [raised |-> event_id = NullId, status |-> status, event_id |-> event_id]

BulkResult(w, raised, results) == [w |-> w, raised |-> raised, results |-> results]

RECURSIVE bulk_update_events(_, _, _, _)
bulk_update_events(w, event_updates, results, env) ==
    IF event_updates = <<>> THEN BulkResult(w, FALSE, results)
    ELSE LET event_update == Head(event_updates)
             Collected(w1, response) ==
                 IF response.raised
                 THEN BulkResult(w1, TRUE, results)
                 ELSE bulk_update_events(w1, Tail(event_updates),
                                         Append(results, response), env)
             Tried(r) ==
                 IF r.ok
                 THEN Collected(r.w, EventUpdateResponse("success", event_update.event_id))
                 ELSE \* except Exception as e
                      Collected(r.w, EventUpdateResponse("error", event_update.event_id))
         IN IF event_update.event_id = NullId
            THEN \* update_event finds no event for None and raises
                 Collected(w, EventUpdateResponse("error", event_update.event_id))
            ELSE Tried(update_event(w, event_update.event_id, event_update.update_data, env))

---------------------------------------------------------------------------
(* Webhook job: tasks/webhook_tasks.py.  CalendarService's methods         *)
(* get_user_by_channel_id and handle_calendar_change_notification, which   *)
(* the job calls, are modelled from the specification (section 4.4).       *)

\* X-Goog-Resource-State values the provider sends.
ResourceStates == {"exists", "not_exists"}

NoSub == [present |-> FALSE, user_id |-> "None", last_sync |-> 0, expiration |-> 0]
SubUntil(user, expiration) ==
    [present |-> TRUE, user_id |-> user, last_sync |-> 0, expiration |-> expiration]
\* A subscription set up at time 0.
Sub(user) == SubUntil(user, ChannelLifetime)

\* Resolve the owning user from the channel id; None when there is none.
get_user_by_channel_id(sb, channel_id) ==
    IF sb[channel_id].present THEN sb[channel_id].user_id ELSE "None"

\* The marker is left as it was.
update_webhook_last_sync_none(sb, channel_id) == sb

\* CalendarRepo.update_webhook_last_sync
update_webhook_last_sync(sb, channel_id) ==
    [sb EXCEPT ![channel_id].last_sync = 1]

\* Perform an incremental sync for the user, then set the last-sync marker.
handle_calendar_change_notification(w, sb, channel_id, env) ==
    LET Synced(r) ==
            [sync |-> r, subs |-> IF r.ok THEN update_webhook_last_sync(sb, channel_id) ELSE sb]
    IN Synced(get_all_user_calendar_events(w, FALSE, FALSE, env))

\* _process_webhook_async; raised stands for any exception leaving it.
process_webhook_async(w, sb, channel_id, env) ==
    LET user_id == get_user_by_channel_id(sb, channel_id)
        Handled(h) ==
            IF ~h.sync.ok
            THEN [raised |-> TRUE, w |-> h.sync.w, subs |-> h.subs, synced |-> FALSE,
                  sync |-> h.sync]
            ELSE [raised |-> FALSE,
                  w |-> [h.sync.w EXCEPT !.cache = invalidate_user_cache(@)],
                  subs |-> h.subs, synced |-> TRUE, sync |-> h.sync]
    IN IF user_id = "None"
       THEN [raised |-> TRUE, w |-> w, subs |-> sb, synced |-> FALSE,
             sync |-> SyncResult(w, FALSE, 404, "none", NoToken, NoData, NoData)]
       ELSE Handled(handle_calendar_change_notification(w, sb, channel_id, env))

\* process_calendar_webhook: the job's result is "ignored", the coroutine's
\* "success", or None when the bare except swallowed what the coroutine raised.
process_calendar_webhook(w, sb, channel_id, resource_state, env) ==
    IF resource_state \notin {"exists", "sync"}
    THEN [result |-> "ignored", w |-> w, subs |-> sb, synced |-> FALSE,
          sync |-> SyncResult(w, FALSE, 0, "none", NoToken, NoData, NoData)]
    ELSE LET Ran(p) ==
                 [result |-> IF p.raised THEN "None" ELSE "success",
                  w |-> p.w, subs |-> p.subs, synced |-> p.synced, sync |-> p.sync]
         IN Ran(process_webhook_async(w, sb, channel_id, env))

\* @celery_app.task(bind=True, max_retries=3)
max_retries == 3
\* countdown=60 * (2 ** self.request.retries)
RetryCountdown(retries) == 60 * (2 ^ retries)

\* One attempt of the Celery task: the state the worker reports for it
\* (SUCCESS when the function returned, RETRY when it raised self.retry,
\* FAILURE when it raised anything else), the value it returned and the
\* delay of the retry.  services_ok: get_services() and the event loop were
\* obtained without an exception.
Attempt(state, result, countdown, p) ==
    [state |-> state, result |-> result, countdown |-> countdown,
     w |-> p.w, subs |-> p.subs, synced |-> p.synced, sync |-> p.sync]

run_task(w, sb, job, services_ok, env) ==
    LET Returned(p) == Attempt("SUCCESS", p.result, 0, p)
        Untouched == [w |-> w, subs |-> sb, synced |-> FALSE,
                      sync |-> SyncResult(w, FALSE, 0, "none", NoToken, NoData, NoData)]
    IN IF job.resource_state \in {"exists", "sync"} /\ ~services_ok
       THEN \* except Exception as exc
            IF job.retries < max_retries
            THEN Attempt("RETRY", "none", RetryCountdown(job.retries), Untouched)
            ELSE Attempt("FAILURE", "none", 0, Untouched)
       ELSE Returned(process_calendar_webhook(w, sb, job.channel_id, job.resource_state, env))

---------------------------------------------------------------------------
(* Webhook receipt: api/webhook.py, POST /webhook/google-calendar.  The     *)
(* endpoint answers with an HTTP status and, when it returns, a status in  *)
(* the body; q is the worker's queue.                                      *)

\* A header the request does not carry (None, or the empty string).
NoHeader == "None"
ChannelHeaders == {NoHeader} \cup Channels
StateHeaders == {NoHeader, "exists", "sync", "not_exists"}

Job(channel_id, resource_state) ==
    [channel_id |-> channel_id, resource_state |-> resource_state, retries |-> 0]

Answer(q, http, status) == [queue |-> q, raised |-> FALSE, http |-> http, status |-> status]
\* raise HTTPException(status_code=http), or any other exception (http 0)
Failure(q, http) == [queue |-> q, raised |-> TRUE, http |-> http, status |-> "none"]

\* process_calendar_webhook.delay(...): raises when the broker is unreachable
delay(q, job, broker_up) ==
    IF broker_up THEN Answer(Append(q, job), 200, "queued") ELSE Failure(q, 0)

\* The endpoint without the test of the resource state.
google_calendar_webhook_queues_all(q, x_goog_channel_id, x_goog_resource_state, broker_up) ==
    IF x_goog_channel_id = NoHeader \/ x_goog_resource_state = NoHeader
    THEN Failure(q, 500)
    ELSE IF broker_up
    THEN Answer(Append(q, Job(x_goog_channel_id, x_goog_resource_state)), 200, "accepted")
    ELSE Failure(q, 500)

google_calendar_webhook(q, x_goog_channel_id, x_goog_resource_state, broker_up) ==
    LET Queued(task) ==
            IF task.raised THEN task ELSE Answer(task.queue, 200, "accepted")
        try ==
            IF x_goog_channel_id = NoHeader \/ x_goog_resource_state = NoHeader
            THEN Failure(q, 400)
            ELSE IF x_goog_resource_state \notin {"exists", "sync"}
            THEN Answer(q, 200, "ignored")
            ELSE Queued(delay(q, Job(x_goog_channel_id, x_goog_resource_state), broker_up))
    IN \* except Exception as e: raise HTTPException(status_code=500, ...)
       IF try.raised THEN Failure(try.queue, 500) ELSE try

---------------------------------------------------------------------------
(* WebhookSubscriptionManager: setup_calendar_webhook and                  *)
(* unsubscribe_calendar_webhook of CalendarService, and the sweep of       *)
(* WebhookMaintenanceService.  A channel lapses at the provider at its     *)
(* expiration without any message; watching holds the ids that were        *)
(* registered and not stopped.                                             *)

\* What a subscription handler leaves: the world, the subscriptions, the
\* provider's channels, the number of ids drawn, and whether it returned.
ChanResult(w, sb, wt, n, ok, http) ==
    [w |-> w, subs |-> sb, watching |-> wt, setups |-> n, ok |-> ok, http |-> http]

\* CalendarRepo.save_webhook_subscription (insert_one)
save_webhook_subscription(sb, user_id, channel_id, expiration) ==
    [sb EXCEPT ![channel_id] = SubUntil(user_id, expiration)]

\* CalendarRepo.delete_webhook_subscription
delete_webhook_subscription(sb, channel_id) == [sb EXCEPT ![channel_id] = NoSub]

\* CalendarRepo.get_user_webhook_subscriptions
get_user_webhook_subscriptions(sb, user_id) ==
    {c \in DOMAIN sb : sb[c].present /\ sb[c].user_id = user_id}

\* A new channel id is drawn and registered whatever the user already has.
setup_calendar_webhook(w, sb, wt, n, user_id, tnow, env) ==
    LET channel_id == FreshChannels[n + 1]
        expiration == tnow + ChannelLifetime
        Watched(r) ==
            IF r.raised
            THEN ChanResult(r.w, sb, wt, n + 1, FALSE, r.status)
            ELSE ChanResult(r.w,
                            save_webhook_subscription(sb, user_id, channel_id, expiration),
                            wt \cup {channel_id}, n + 1, TRUE, 200)
    IN Watched(make_google_api_request(WatchReq(channel_id), env, w, 0))

\* The channel is stopped at the provider but its record is kept.
unsubscribe_calendar_webhook_keeps_record(w, sb, wt, n, channel_id, env) ==
    IF ~sb[channel_id].present
    THEN ChanResult(w, sb, wt, n, FALSE, 404)
    ELSE ChanResult(make_google_api_request(StopReq(channel_id), env, w, 0).w,
                    sb, wt \ {channel_id}, n, TRUE, 200)

unsubscribe_calendar_webhook(w, sb, wt, n, channel_id, env) ==
    IF ~sb[channel_id].present
    THEN ChanResult(w, sb, wt, n, FALSE, 404)
    ELSE LET Stopped(r) ==
                 IF r.raised
                 THEN ChanResult(r.w, sb, wt, n, FALSE, r.status)
                 ELSE ChanResult(r.w, delete_webhook_subscription(sb, channel_id),
                                 wt \ {channel_id}, n, TRUE, 200)
         IN Stopped(make_google_api_request(StopReq(channel_id), env, w, 0))

\* CalendarRepo.cleanup_expired_webhook_subscriptions: expiration < now.
ExpiredAt(sb, tnow) == {c \in DOMAIN sb : sb[c].present /\ sb[c].expiration < tnow}

\* Nothing is deleted.
cleanup_expired_webhook_subscriptions_none(sb, tnow) == sb

cleanup_expired_webhook_subscriptions(sb, tnow) ==
    [c \in DOMAIN sb |-> IF c \in ExpiredAt(sb, tnow) THEN NoSub ELSE sb[c]]

\* The find of refresh_expiring_subscriptions:
\* now < expiration < now + 24 hours.
ExpiringAt(sb, tnow) ==
    {c \in DOMAIN sb : /\ sb[c].present
                       /\ sb[c].expiration < tnow + RefreshThreshold
                       /\ sb[c].expiration > tnow}

expiring_subscriptions(sb, tnow) ==
    LET Expiring(c) == c \in ExpiringAt(sb, tnow)
    IN SelectSeq(ChannelOrder, Expiring)

\* The loop of refresh_expiring_subscriptions over the subscriptions found
\* (found is the collection as the find read it); an exception of either
\* call is logged and the loop goes on.
RECURSIVE refresh_each(_, _, _, _, _)
refresh_each(c, expiring, found, tnow, env) ==
    IF expiring = <<>> THEN c
    ELSE LET channel_id == Head(expiring)
             user_id == found[channel_id].user_id
             Setup(u) ==
                 IF u.ok
                 THEN setup_calendar_webhook(u.w, u.subs, u.watching, u.setups,
                                             user_id, tnow, env)
                 ELSE u
         IN refresh_each(
                Setup(unsubscribe_calendar_webhook(c.w, c.subs, c.watching, c.setups,
                                                   channel_id, env)),
                Tail(expiring), found, tnow, env)

refresh_expiring_subscriptions(w, sb, wt, n, tnow, env) ==
    refresh_each(ChanResult(w, sb, wt, n, TRUE, 200),
                 expiring_subscriptions(sb, tnow), sb, tnow, env)

run_maintenance_cycle(w, sb, wt, n, tnow, env) ==
    refresh_expiring_subscriptions(
        w, cleanup_expired_webhook_subscriptions(sb, tnow), wt, n, tnow, env)

---------------------------------------------------------------------------
(* The maintenance task: main.py lifespan and start_maintenance_scheduler. *)
(* pc is the await the coroutine is suspended at: inside                   *)
(* run_maintenance_cycle ("cycle"), in the interval sleep ("sleep"), in    *)
(* the sleep of the except clause ("backoff"); "done" when the coroutine   *)
(* was left.  cancel: maintenance_task.cancel() was called and the CancelledError is   *)
(* to be thrown at that await.                                             *)

Started == [pc |-> "cycle", cancel |-> FALSE, sweeps |-> 0]

\* Every exception class is caught.
Catches_all(handler, exc) == TRUE

\* `except Exception` catches instances of Exception; CancelledError
\* derives from BaseException.
Catches(handler, exc) == handler = "Exception" /\ exc # "CancelledError"

\* The scheduler's try/except around the cycle and the interval sleep, and
\* the back-off sleep inside the except clause, which no try encloses.
thrown_in_scheduler(pc, exc) ==
    IF pc \in {"cycle", "sleep"} /\ Catches("Exception", exc) THEN "backoff" ELSE "done"

\* What a cycle left when an exception was thrown at one of its awaits:
\* nothing, the clean-up, or the clean-up and the first unsubscribe.  The
\* handlers of the cycle are `except Exception` clauses.
cycle_prefixes(w, sb, wt, n, tnow, env) ==
    LET c0 == ChanResult(w, sb, wt, n, TRUE, 200)
        c1 == [c0 EXCEPT !.subs = cleanup_expired_webhook_subscriptions(sb, tnow)]
        expiring == expiring_subscriptions(c1.subs, tnow)
    IN {c0, c1} \cup
       (IF expiring = <<>> THEN {}
        ELSE {unsubscribe_calendar_webhook(w, c1.subs, wt, n, Head(expiring), env)})

---------------------------------------------------------------------------
(* Concurrent handler calls.  A call gives way to other calls at each of   *)
(* its awaits; a task holds the place pc the call has reached and the      *)
(* values it has read so far.                                              *)

Procs == {"a", "b"}

Idle ==
    [pc |-> "idle", op |-> "none", ok |-> TRUE, force |-> FALSE, token |-> NoToken,
     res |-> NoData,
     cached_events |-> NoData, event |-> NoEvent, id |-> "None"]

Moved(t, st, ca) == [task |-> t, store |-> st, cache |-> ca]

\* get_all_user_calendar_events(user, t.force, fullResponse=False) from one
\* await to the next, the provider serving the list call.
sync_step(t, st, ca, rem, clk) ==
    CASE t.pc = "get_sync_token" ->
            LET token == get_sync_token(ca)
            IN Moved([t EXCEPT !.token = token,
                               !.pc = IF token = NoToken THEN "get_synctoken_if_exists"
                                      ELSE "list"], st, ca)
      [] t.pc = "get_synctoken_if_exists" ->
            Moved([t EXCEPT !.token = get_synctoken_if_exists(st), !.pc = "list"], st, ca)
      [] t.pc = "list" ->
            LET token == IF t.force THEN NoToken ELSE t.token
                Listed(r) == Moved([t EXCEPT !.token = token, !.res = r.body.data,
                                             !.pc = "update_synctoken"], st, ca)
            IN Listed(make_google_api_request(ListReq(token), Env(<<>>, <<>>),
                                              World(st, ca, rem, clk), 0))
      [] t.pc = "update_synctoken" ->
            Moved([t EXCEPT !.pc = "cache_sync_token"],
                  update_synctoken(st, t.res.nextSyncToken), ca)
      [] t.pc = "cache_sync_token" ->
            Moved([t EXCEPT !.pc = IF t.token = NoToken THEN "insert_events"
                                   ELSE IF t.res.items # <<>> THEN "update_items"
                                   ELSE "done"],
                  st, cache_sync_token(ca, t.res.nextSyncToken))
      [] t.pc = "insert_events" ->
            IF insert_events_fails(st, t.res)
            THEN Moved([t EXCEPT !.pc = "done", !.ok = FALSE], st, ca)
            ELSE Moved([t EXCEPT !.pc = "cache_user_events"], insert_events(st, t.res), ca)
      [] t.pc = "cache_user_events" ->
            Moved([t EXCEPT !.pc = "done"], st, cache_user_events(ca, t.res))
      [] t.pc = "update_items" ->
            Moved([t EXCEPT !.pc = "cache_items"], update_items(st, t.res.items), ca)
      [] t.pc = "cache_items" ->
            Moved([t EXCEPT !.pc = "done"], st, cache_apply_items(ca, t.res.items))

\* update_event_in_cache(user, t.event) and remove_event_from_cache(user,
\* t.id) from one client command to the next: the per-event key, the read
\* of the cached list, the write of the list computed from what was read.
cache_step(t, ca) ==
    CASE t.pc = "cache_single_event" ->
            Moved([t EXCEPT !.pc = "get"], NoDoc, cache_single_event(ca, t.event))
      [] t.pc = "delete" ->
            Moved([t EXCEPT !.pc = "get"], NoDoc, [ca EXCEPT !.event[t.id] = NoEvent])
      [] t.pc = "get" ->
            LET cached_events == get_user_events(ca)
            IN Moved([t EXCEPT !.cached_events = cached_events,
                               !.pc = IF cached_events.present THEN "setex" ELSE "done"],
                     NoDoc, ca)
      [] t.pc = "setex" ->
            LET read == [ca EXCEPT !.events = t.cached_events]
                events_data == IF t.op = "update_event_in_cache"
                               THEN update_event_in_cache(read, t.event).events
                               ELSE remove_event_from_cache(read, t.id).events
            IN Moved([t EXCEPT !.pc = "done"], NoDoc, [ca EXCEPT !.events = events_data])

CachePlaces == {"cache_single_event", "delete", "get", "setex"}

SyncPlaces ==
    {"get_sync_token", "get_synctoken_if_exists", "list", "update_synctoken",
     "cache_sync_token", "insert_events", "cache_user_events", "update_items", "cache_items"}

---------------------------------------------------------------------------
(* The state machine *)

\* What a handler call may meet at the provider: reply script, refresh script.
Served == Env(<<>>, <<>>)
Faults ==
    {Env(<<"401">>, <<>>), Env(<<"401", "401", "401">>, <<>>),
     Env(<<"401">>, <<"fail">>), Env(<<"500">>, <<>>), Env(<<"410">>, <<>>)}

\* Requests to update an event: each field a new value or None.
NoUpdate == [summary |-> NoneField, location |-> NoneField]
UpdateRequests ==
    {[summary |-> "s1", location |-> NoneField],
     [summary |-> NoneField, location |-> "l1"]}

Quiet == [expired |-> FALSE, remote |-> FALSE]

\* The record of a handler call: its arguments, its outcome, what it
\* exchanged with the provider, the call before it (after) and what the
\* environment did between the two (between).
NoOp ==
    [op |-> "none", arg |-> "", id |-> "None", force |-> FALSE, full |-> FALSE,
     update |-> NoUpdate, ok |-> FALSE, http |-> 0, cause |-> 0, path |-> "none",
     cursor |-> NoToken, token |-> NoToken, res |-> NoData, ret |-> NoData,
     event |-> NoEvent, sent |-> 0,
     nreq |-> 0, nref |-> 0, all401 |-> FALSE, refreshed |-> FALSE, first |-> "none",
     after |-> [op |-> "none", arg |-> "", id |-> "None", ok |-> FALSE, path |-> "none"],
     between |-> Quiet,
     at |-> 0, expired |-> {}, expiring |-> {}, live |-> {}, created |-> {},
     fail |-> 0, failed |-> FALSE, raised |-> FALSE, value |-> "none",
     state |-> "none", retries |-> 0, countdown |-> 0,
     batch |-> <<>>, results |-> <<>>, carried |-> <<>>]

\* Facts about the provider's replies during a call that sent n requests.
All401(env, n) == n > 0 /\ \A k \in 1..n : ReplyAt(env.replies, k) = "401"
Refreshed(env, n) == \A k \in 1..n : RefreshAt(env.refreshes, k) = "ok"
FirstReply(env, n) == IF n > 0 THEN ReplyAt(env.replies, 1) ELSE "none"

Called(op, w, env) ==
    [NoOp EXCEPT !.op = op, !.nreq = w.i, !.nref = w.j, !.carried = w.carried,
                 !.all401 = All401(env, w.i), !.refreshed = Refreshed(env, w.j),
                 !.first = FirstReply(env, w.i),
                 !.after = [op |-> lastOp.op, arg |-> lastOp.arg, id |-> lastOp.id,
                            ok |-> lastOp.ok, path |-> lastOp.path],
                 !.between = since]

Leave(w) ==
    /\ steps.ops < MaxOps
    /\ steps' = [steps EXCEPT !.ops = @ + 1]
    /\ w.clock <= MaxClock
    /\ store' = w.store
    /\ cache' = w.cache
    /\ remote' = w.remote
    /\ clock' = w.clock
    /\ since' = Quiet
    /\ UNCHANGED <<now, watching, queue, maintenance_task, redis, tasks>>

\* The calendar holds E1 when the user registers.
Remote0 ==
    [id \in EventIds |->
        IF id = "E1" THEN Event(id, 1, "confirmed", "s0", "l0") ELSE AbsentEvent(id)]

\* A run starts with a user who never synchronised (no document, cold
\* cache), or with one whose first get_events has just returned.
FirstSync ==
    get_all_user_calendar_events(World(NoDoc, EmptyCache, Remote0, 1), FALSE, FALSE, Served).w

Init ==
    /\ \/ store = NoDoc /\ cache = EmptyCache
       \/ store = FirstSync.store /\ cache = FirstSync.cache
    /\ remote = Remote0
    /\ clock = 1
    /\ subs = [c \in AllChannels |-> IF c = "ch1" THEN Sub(UserId) ELSE NoSub]
    /\ now = 0
    /\ watching = {"ch1"}
    /\ queue = <<>>
    /\ maintenance_task = Started
    /\ redis = {}
    /\ tasks = [p \in Procs |-> Idle]
    /\ lastOp = NoOp
    /\ since = Quiet
    /\ steps = [ops |-> 0, expiries |-> 0, setups |-> 0, jobs |-> 0]

GetEvents(forceFullSync, fullResponse, env) ==
    LET Done(r) ==
            /\ Leave(r.w)
            /\ lastOp' = [Called("get_events", r.w, env) EXCEPT
                             !.force = forceFullSync, !.full = fullResponse,
                             !.cursor = resolve_sync_token(World(store, cache, remote, clock),
                                                           forceFullSync),
                             !.ok = r.ok, !.http = r.http, !.path = r.path,
                             !.token = r.token, !.res = r.res, !.ret = r.ret]
            /\ UNCHANGED subs
    IN Done(get_all_user_calendar_events(World(store, cache, remote, clock),
                                         forceFullSync, fullResponse, env))

GetEvent(event_id, env) ==
    LET Done(r) ==
            /\ Leave(r.w)
            /\ lastOp' = [Called("get_event", r.w, env) EXCEPT
                             !.id = event_id, !.ok = r.ok, !.http = r.http,
                             !.path = r.path, !.event = r.ret]
            /\ UNCHANGED subs
    IN Done(get_event_from_id(World(store, cache, remote, clock), event_id, env))

UpdateEvent(event_id, update_data, env) ==
    LET Done(r) ==
            /\ Leave(r.w)
            /\ lastOp' = [Called("update_event", r.w, env) EXCEPT
                             !.id = event_id, !.update = update_data, !.ok = r.ok,
                             !.http = r.http, !.cause = r.cause, !.sent = r.sent,
                             !.event = r.cur]
            /\ UNCHANGED subs
    IN Done(update_event(World(store, cache, remote, clock), event_id, update_data, env))

ProcessWebhook(channel_id, resource_state, env) ==
    LET Done(r) ==
            /\ Leave(r.w)
            /\ subs' = r.subs
            /\ lastOp' = [Called("webhook", r.w, env) EXCEPT
                             !.id = channel_id, !.arg = resource_state, !.ok = r.synced,
                             !.http = r.sync.http, !.path = r.sync.path,
                             !.token = r.sync.token, !.res = r.sync.res]
    IN Done(process_calendar_webhook(World(store, cache, remote, clock), subs,
                                     channel_id, resource_state, env))

\* The calendar changes at the provider (the user's other clients).
RemoteCreate(id) ==
    /\ clock < MaxClock
    /\ remote[id].status = "absent"
    /\ remote' = [remote EXCEPT ![id] = Event(id, clock + 1, "confirmed", "s0", "l0")]
    /\ clock' = clock + 1
    /\ since' = [since EXCEPT !.remote = TRUE]
    /\ UNCHANGED <<store, cache, subs, lastOp, steps, now, watching, queue, maintenance_task, redis, tasks>>

RemoteModify(id) ==
    /\ clock < MaxClock
    /\ remote[id].status = "confirmed"
    /\ remote' = [remote EXCEPT ![id].summary = "s2", ![id].etag = clock + 1]
    /\ clock' = clock + 1
    /\ since' = [since EXCEPT !.remote = TRUE]
    /\ UNCHANGED <<store, cache, subs, lastOp, steps, now, watching, queue, maintenance_task, redis, tasks>>

RemoteCancel(id) ==
    /\ clock < MaxClock
    /\ remote[id].status = "confirmed"
    /\ remote' = [remote EXCEPT ![id].status = "cancelled", ![id].etag = clock + 1]
    /\ clock' = clock + 1
    /\ since' = [since EXCEPT !.remote = TRUE]
    /\ UNCHANGED <<store, cache, subs, lastOp, steps, now, watching, queue, maintenance_task, redis, tasks>>

\* A Redis key reaches its TTL.
Expired ==
    /\ steps.expiries < MaxExpiries
    /\ steps' = [steps EXCEPT !.expiries = @ + 1]
    /\ since' = [since EXCEPT !.expired = TRUE]
    /\ UNCHANGED <<store, remote, clock, subs, lastOp, now, watching, queue, maintenance_task, redis, tasks>>

ExpireEvents ==
    /\ cache.events.present
    /\ cache' = [cache EXCEPT !.events = NoData]
    /\ Expired

ExpireEvent(id) ==
    /\ cache.event[id] # NoEvent
    /\ cache' = [cache EXCEPT !.event[id] = NoEvent]
    /\ Expired

ExpireSyncToken ==
    /\ cache.sync_token # NoToken
    /\ cache' = [cache EXCEPT !.sync_token = NoToken]
    /\ Expired

Environment ==
    \/ \E id \in EventIds : RemoteCreate(id)
    \/ \E id \in EventIds : RemoteModify(id)
    \/ \E id \in EventIds : RemoteCancel(id)
    \/ ExpireEvents
    \/ \E id \in EventIds : ExpireEvent(id)
    \/ ExpireSyncToken

\* The provider serves every request.
Next ==
    \/ \E f \in BOOLEAN, g \in BOOLEAN : GetEvents(f, g, Served)
    \/ \E id \in EventIds : GetEvent(id, Served)
    \/ \E id \in EventIds, u \in UpdateRequests : UpdateEvent(id, u, Served)
    \/ \E c \in Channels, rs \in ResourceStates : ProcessWebhook(c, rs, Served)
    \/ Environment

Spec == Init /\ [][Next]_vars

\* Subscriptions of the user that have not expired.
LiveAt(sb, user_id, tnow) ==
    {c \in get_user_webhook_subscriptions(sb, user_id) : sb[c].expiration > tnow}

\* A run of the subscription manager starts with the user's subscription
\* ch1, set up at some time in the last six days.
InitChannels ==
    /\ store = NoDoc /\ cache = EmptyCache
    /\ remote = Remote0
    /\ clock = 1
    /\ \E e \in 1..ChannelLifetime :
          subs = [c \in AllChannels |-> IF c = "ch1" THEN SubUntil(UserId, e) ELSE NoSub]
    /\ now = 0
    /\ watching = {"ch1"}
    /\ queue = <<>>
    /\ maintenance_task = Started
    /\ redis = {}
    /\ tasks = [p \in Procs |-> Idle]
    /\ lastOp = NoOp
    /\ since = Quiet
    /\ steps = [ops |-> 0, expiries |-> 0, setups |-> 0, jobs |-> 0]

\* What a subscription handler leaves, and the record of its call.
Settle(op, id, c, env) ==
    /\ steps.ops < MaxOps
    /\ c.setups <= MaxSetups
    /\ steps' = [steps EXCEPT !.ops = @ + 1, !.setups = c.setups]
    /\ store' = c.w.store
    /\ cache' = c.w.cache
    /\ remote' = c.w.remote
    /\ clock' = c.w.clock
    /\ subs' = c.subs
    /\ watching' = c.watching
    /\ since' = Quiet
    /\ lastOp' = [Called(op, c.w, env) EXCEPT
                    !.id = id, !.ok = c.ok, !.http = c.http, !.at = now,
                    !.expired = ExpiredAt(subs, now),
                    !.expiring = ExpiringAt(subs, now),
                    !.live = LiveAt(subs, UserId, now),
                    !.created = {ch \in DOMAIN subs : c.subs[ch].present /\ ~subs[ch].present},
                    !.arg = IF \E ch \in DOMAIN subs : c.subs[ch].present /\ ~subs[ch].present
                            THEN "created" ELSE ""]
    /\ UNCHANGED <<now, queue, redis, tasks>>

\* POST /webhook/setup/{user_id}
SetupWebhook(user_id, env) ==
    Settle("setup", user_id,
           setup_calendar_webhook(World(store, cache, remote, clock), subs, watching,
                                  steps.setups, user_id, now, env),
           env)
    /\ UNCHANGED maintenance_task

\* DELETE /webhook/unsubscribe/{channel_id}
UnsubscribeWebhook(channel_id, env) ==
    Settle("unsubscribe", channel_id,
           unsubscribe_calendar_webhook(World(store, cache, remote, clock), subs, watching,
                                        steps.setups, channel_id, env),
           env)
    /\ UNCHANGED maintenance_task

\* One cycle of start_maintenance_scheduler.
Sweep(env) ==
    Settle("sweep", "None",
           run_maintenance_cycle(World(store, cache, remote, clock), subs, watching,
                                 steps.setups, now, env),
           env)
    /\ UNCHANGED maintenance_task

\* Twelve hours pass.
Tick ==
    /\ now < MaxNow
    /\ now' = now + 1
    /\ UNCHANGED <<store, cache, remote, clock, subs, lastOp, since, steps, watching, queue, maintenance_task, redis, tasks>>

NextChannels ==
    \/ SetupWebhook(UserId, Served)
    \/ \E c \in AllChannels : UnsubscribeWebhook(c, Served)
    \/ Sweep(Served)
    \/ Tick

SpecChannels == InitChannels /\ [][NextChannels]_vars

\* start_maintenance_scheduler: the cycle returns and the interval sleep
\* begins.
CycleReturns ==
    /\ maintenance_task.pc = "cycle" /\ ~maintenance_task.cancel
    /\ Settle("sweep", "None",
              run_maintenance_cycle(World(store, cache, remote, clock), subs, watching,
                                    steps.setups, now, Served),
              Served)
    /\ maintenance_task' = [maintenance_task EXCEPT !.pc = "sleep", !.sweeps = @ + 1]

\* An Exception leaves the cycle (none of its own handlers was in its way).
CycleRaises ==
    /\ maintenance_task.pc = "cycle" /\ ~maintenance_task.cancel
    /\ maintenance_task' = [maintenance_task EXCEPT !.pc = thrown_in_scheduler("cycle", "Exception")]
    /\ UNCHANGED <<store, cache, remote, clock, subs, lastOp, since, steps, now, watching,
                   queue, redis, tasks>>

\* A sleep ends (6 hours, or 30 minutes) and the loop starts the next cycle.
Wake(hours) ==
    /\ maintenance_task.pc \in {"sleep", "backoff"} /\ ~maintenance_task.cancel
    /\ now + hours <= MaxNow
    /\ now' = now + hours
    /\ maintenance_task' = [maintenance_task EXCEPT !.pc = "cycle"]
    /\ UNCHANGED <<store, cache, remote, clock, subs, lastOp, since, steps, watching, queue, redis, tasks>>

\* lifespan, shutdown: maintenance_task.cancel()
Cancel ==
    /\ maintenance_task.pc # "done" /\ ~maintenance_task.cancel
    /\ maintenance_task' = [maintenance_task EXCEPT !.cancel = TRUE]
    /\ UNCHANGED <<store, cache, remote, clock, subs, lastOp, since, steps, now, watching,
                   queue, redis, tasks>>

\* The event loop throws CancelledError at the await the task is suspended at.
Cancelled ==
    /\ maintenance_task.cancel /\ maintenance_task.pc # "done"
    /\ maintenance_task' = [maintenance_task EXCEPT !.pc = thrown_in_scheduler(maintenance_task.pc, "CancelledError"),
                            !.cancel = FALSE]
    /\ \E c \in IF maintenance_task.pc = "cycle"
                THEN cycle_prefixes(World(store, cache, remote, clock), subs, watching,
                                    steps.setups, now, Served)
                ELSE {ChanResult(World(store, cache, remote, clock), subs, watching,
                                 steps.setups, TRUE, 200)} :
          /\ subs' = c.subs
          /\ watching' = c.watching
    /\ UNCHANGED <<store, cache, remote, clock, lastOp, since, steps, now, queue, redis, tasks>>

NextLoop ==
    \/ CycleReturns
    \/ CycleRaises
    \/ \E hours \in {0, 1} : Wake(hours)
    \/ Cancel
    \/ Cancelled

\* The event loop runs a task that is ready.
SpecLoop == InitChannels /\ [][NextLoop]_vars /\ WF_vars(Cancelled)

\* The provider may fail the first request of a subscription handler.
\* The provider serves, fails the first request, or fails the second one.
ChannelEnvs == {Served, Env(<<"500">>, <<>>), Env(<<"nat", "500">>, <<>>)}

NextChannelsFault ==
    \/ \E env \in ChannelEnvs : SetupWebhook(UserId, env)
    \/ \E c \in AllChannels, env \in ChannelEnvs : UnsubscribeWebhook(c, env)
    \/ \E env \in ChannelEnvs : Sweep(env)
    \/ Tick

SpecChannelsFault == InitChannels /\ [][NextChannelsFault]_vars

\* PATCH /calendar/events/bulk
BulkItems == {Item(id, u) : id \in {"E1", NullId}, u \in UpdateRequests \cup {NoUpdate}}
Batches == UNION {[1..n -> BulkItems] : n \in 1..MaxBatch}

BulkUpdateEvents(event_updates, env) ==
    LET Done(r) ==
            /\ Leave(r.w)
            /\ lastOp' = [Called("bulk", r.w, env) EXCEPT
                             !.ok = ~r.raised, !.http = IF r.raised THEN 500 ELSE 200,
                             !.batch = event_updates, !.results = r.results]
            /\ UNCHANGED subs
    IN Done(bulk_update_events(World(store, cache, remote, clock), event_updates, <<>>, env))

NextBulk ==
    \/ \E b \in Batches : BulkUpdateEvents(b, Served)
    \/ \E id \in EventIds : RemoteModify(id)
    \/ \E id \in EventIds : ExpireEvent(id)

SpecBulk == Init /\ [][NextBulk]_vars

\* PATCH /calendar/event/{event_id} with any body, fields or none.
NextUpdate ==
    \/ \E id \in EventIds, u \in UpdateRequests \cup {NoUpdate} : UpdateEvent(id, u, Served)
    \/ \E id \in EventIds : GetEvent(id, Served)
    \/ Environment

SpecUpdate == Init /\ [][NextUpdate]_vars

\* The cache server with the keys of two users.
InitRedis ==
    /\ store = FirstSync.store
    /\ cache = FirstSync.cache
    /\ remote = Remote0
    /\ clock = 1
    /\ subs = [c \in AllChannels |-> IF c = "ch1" THEN Sub(UserId) ELSE NoSub]
    /\ now = 0
    /\ watching = {"ch1"}
    /\ queue = <<>>
    /\ maintenance_task = Started
    /\ redis \in SUBSET AllKeys
    /\ tasks = [p \in Procs |-> Idle]
    /\ lastOp = NoOp
    /\ since = Quiet
    /\ steps = [ops |-> 0, expiries |-> 0, setups |-> 0, jobs |-> 0]

RedisCall(op, user_id, rd) ==
    /\ steps.ops < MaxRedisOps
    /\ steps' = [steps EXCEPT !.ops = @ + 1]
    /\ redis' = rd
    /\ lastOp' = [NoOp EXCEPT !.op = op, !.batch = user_id, !.value = "True"]
    /\ UNCHANGED <<store, cache, remote, clock, subs, since, now, watching, queue,
                   maintenance_task, tasks>>

\* A cache write of a user sets one of the user's keys.
SetKey(user_id, key) == RedisCall("setex", user_id, redis \cup {key})

InvalidateUser(user_id) ==
    RedisCall("invalidate_user_cache", user_id, invalidate_user_keys(redis, user_id))

NextRedis ==
    \/ \E u \in Users : \E k \in UserKeys(u) : SetKey(u, k)
    \/ \E u \in Users : InvalidateUser(u)

SpecRedis == InitRedis /\ [][NextRedis]_vars

\* The provider may fail a handler call.
NextFault ==
    \/ /\ steps.ops < MaxFaultOps
       /\ \/ \E f \in BOOLEAN, g \in BOOLEAN, env \in Faults \cup {Served} : GetEvents(f, g, env)
          \/ \E id \in EventIds, env \in Faults \cup {Served} : GetEvent(id, env)
          \/ \E id \in EventIds, u \in UpdateRequests, env \in Faults \cup {Served} :
                UpdateEvent(id, u, env)
          \/ \E c \in Channels, rs \in ResourceStates, env \in Faults \cup {Served} :
                ProcessWebhook(c, rs, env)
    \/ Environment

SpecFault == Init /\ [][NextFault]_vars

\* Failures with and without the words "401" or "unauthorized" in their text.
TextFaults ==
    {Env(<<"500">>, <<>>), Env(<<"500u">>, <<>>),
     Env(<<"401">>, <<"fail">>), Env(<<"401">>, <<"failu">>)}

NextText ==
    \/ /\ steps.ops < MaxFaultOps
       /\ \/ \E f \in BOOLEAN, g \in BOOLEAN, env \in TextFaults : GetEvents(f, g, env)
          \/ \E id \in EventIds, env \in TextFaults : GetEvent(id, env)
          \/ \E id \in EventIds, u \in UpdateRequests, env \in TextFaults :
                UpdateEvent(id, u, env)
          \/ \E c \in Channels, rs \in ResourceStates, env \in TextFaults :
                ProcessWebhook(c, rs, env)
    \/ Environment

SpecText == Init /\ [][NextText]_vars

\* One guarded provider call under every reply script and refresh script.
RECURSIVE Scripts(_, _)
Scripts(symbols, n) ==
    IF n = 0 THEN {<<>>}
    ELSE LET shorter == Scripts(symbols, n - 1)
         IN shorter \cup {Append(sc, x) : sc \in shorter, x \in symbols}

GuardEnvs ==
    {Env(replies, refreshes) :
        replies \in Scripts({"nat", "401", "500", "500u"}, MaxReplies),
        refreshes \in Scripts({"ok", "fail", "failu"}, MaxRefreshes)}

GuardedCall(req, env) ==
    LET Done(r) ==
            /\ Leave(r.w)
            /\ lastOp' = [Called("request", r.w, env) EXCEPT
                             !.arg = req.kind, !.id = req.id, !.ok = ~r.raised,
                             !.http = r.status]
            /\ UNCHANGED subs
    IN Done(make_google_api_request(req, env, World(store, cache, remote, clock), 0))

NextGuard ==
    /\ steps.ops < MaxFaultOps
    /\ \/ \E env \in GuardEnvs : GuardedCall(ListReq(NoToken), env)
       \/ \E id \in EventIds, env \in GuardEnvs : GuardedCall(GetReq(id, 0), env)

SpecGuard == Init /\ [][NextGuard]_vars

\* Two syncs of the same user, each giving way at its awaits, while the
\* remote calendar changes.
SyncStart(p, forceFullSync) ==
    /\ tasks[p].pc = "idle"
    /\ tasks' = [tasks EXCEPT ![p] = [Idle EXCEPT !.pc = "get_sync_token",
                                                  !.force = forceFullSync]]
    /\ UNCHANGED <<store, cache, remote, clock, subs, lastOp, since, steps, now, watching,
                   queue, maintenance_task, redis>>

SyncStep(p) ==
    LET Go(m) ==
            /\ tasks' = [tasks EXCEPT ![p] = m.task]
            /\ store' = m.store
            /\ cache' = m.cache
            /\ UNCHANGED <<remote, clock, subs, lastOp, since, steps, now, watching,
                           queue, maintenance_task, redis>>
    IN /\ tasks[p].pc \in SyncPlaces
       /\ Go(sync_step(tasks[p], store, cache, remote, clock))

NextRace ==
    \/ \E p \in Procs, f \in BOOLEAN : SyncStart(p, f)
    \/ \E p \in Procs : SyncStep(p)
    \/ \E id \in EventIds : RemoteModify(id)

SpecRace == Init /\ [][NextRace]_vars

\* Calls of the CacheLayer with a client that may fail at one command.
CacheEvents ==
    {Event("E1", 2, "confirmed", "s2", "l0"), Event("E2", 2, "confirmed", "s0", "l0")}
CacheData == {Data(<<e>>, 2) : e \in CacheEvents} \cup {FirstSync.store}

\* Two cache calls of the same user for two different events, each giving
\* way at its client commands.  Both events are in the cached list.
BothListed ==
    Data(<<Event("E1", 1, "confirmed", "s0", "l0"), Event("E2", 1, "confirmed", "s0", "l0")>>, 1)

ProcEvent == [p \in Procs |-> IF p = "a" THEN "E1" ELSE "E2"]

InitCacheRace ==
    /\ store = BothListed
    /\ cache = cache_sync_token(cache_user_events(EmptyCache, BothListed), 1)
    /\ remote = Remote0
    /\ clock = 1
    /\ subs = [c \in AllChannels |-> IF c = "ch1" THEN Sub(UserId) ELSE NoSub]
    /\ now = 0
    /\ watching = {"ch1"}
    /\ queue = <<>>
    /\ maintenance_task = Started
    /\ redis = {}
    /\ tasks = [p \in Procs |-> Idle]
    /\ lastOp = NoOp
    /\ since = Quiet
    /\ steps = [ops |-> 0, expiries |-> 0, setups |-> 0, jobs |-> 0]

UpdateEventInCacheStart(p, ev) ==
    /\ tasks[p].pc = "idle"
    /\ ev.id = ProcEvent[p]
    /\ tasks' = [tasks EXCEPT ![p] = [Idle EXCEPT !.pc = "cache_single_event",
                                                  !.op = "update_event_in_cache",
                                                  !.event = ev, !.id = ev.id]]
    /\ UNCHANGED <<store, cache, remote, clock, subs, lastOp, since, steps, now, watching,
                   queue, maintenance_task, redis>>

RemoveEventFromCacheStart(p) ==
    /\ tasks[p].pc = "idle"
    /\ tasks' = [tasks EXCEPT ![p] = [Idle EXCEPT !.pc = "delete",
                                                  !.op = "remove_event_from_cache",
                                                  !.id = ProcEvent[p]]]
    /\ UNCHANGED <<store, cache, remote, clock, subs, lastOp, since, steps, now, watching,
                   queue, maintenance_task, redis>>

CacheStep(p) ==
    LET Go(m) ==
            /\ tasks' = [tasks EXCEPT ![p] = m.task]
            /\ cache' = m.cache
            /\ UNCHANGED <<store, remote, clock, subs, lastOp, since, steps, now, watching,
                           queue, maintenance_task, redis>>
    IN /\ tasks[p].pc \in CachePlaces
       /\ Go(cache_step(tasks[p], cache))

NextCacheRace ==
    \/ \E p \in Procs, ev \in CacheEvents : UpdateEventInCacheStart(p, ev)
    \/ \E p \in Procs : RemoveEventFromCacheStart(p)
    \/ \E p \in Procs : CacheStep(p)

SpecCacheRace == InitCacheRace /\ [][NextCacheRace]_vars

InitCache ==
    /\ store = FirstSync.store
    /\ cache \in {EmptyCache, FirstSync.cache}
    /\ remote = Remote0
    /\ clock = 1
    /\ subs = [c \in AllChannels |-> IF c = "ch1" THEN Sub(UserId) ELSE NoSub]
    /\ now = 0
    /\ watching = {"ch1"}
    /\ queue = <<>>
    /\ maintenance_task = Started
    /\ redis = {}
    /\ tasks = [p \in Procs |-> Idle]
    /\ lastOp = NoOp
    /\ since = Quiet
    /\ steps = [ops |-> 0, expiries |-> 0, setups |-> 0, jobs |-> 0]

CacheCall(op, id, fail, r) ==
    /\ steps.ops < MaxCacheOps
    /\ steps' = [steps EXCEPT !.ops = @ + 1]
    /\ cache' = r.ca
    /\ lastOp' = [NoOp EXCEPT !.op = op, !.id = id, !.fail = fail, !.failed = r.failed,
                              !.raised = r.raised, !.value = r.ret,
                              !.after = [op |-> lastOp.op, arg |-> lastOp.arg,
                                         id |-> lastOp.id, ok |-> lastOp.ok,
                                         path |-> lastOp.path]]
    /\ UNCHANGED <<store, remote, clock, subs, since, now, watching, queue, maintenance_task, redis, tasks>>

CacheUserEvents(data, fail) ==
    CacheCall("cache_user_events", "None", fail, try_cache_user_events(cache, data, fail))
GetUserEvents(fail) ==
    CacheCall("get_user_events", "None", fail, try_get_user_events(cache, fail))
CacheSingleEvent(ev, fail) ==
    CacheCall("cache_single_event", ev.id, fail, try_cache_single_event(cache, ev, fail))
GetSingleEvent(id, fail) ==
    CacheCall("get_single_event", id, fail, try_get_single_event(cache, id, fail))
UpdateEventInCache(ev, fail) ==
    CacheCall("update_event_in_cache", ev.id, fail,
              try_update_event_in_cache(cache, ev, fail))
RemoveEventFromCache(id, fail) ==
    CacheCall("remove_event_from_cache", id, fail,
              try_remove_event_from_cache(cache, id, fail))
CacheSyncToken(tok, fail) ==
    CacheCall("cache_sync_token", "None", fail, try_cache_sync_token(cache, tok, fail))
GetSyncToken(fail) ==
    CacheCall("get_sync_token", "None", fail, try_get_sync_token(cache, fail))
InvalidateUserCache(fail) ==
    CacheCall("invalidate_user_cache", "None", fail, try_invalidate_user_cache(cache, fail))
GetCacheStats(fail) ==
    CacheCall("get_cache_stats", "None", fail, try_get_cache_stats(cache, fail))

NextCache ==
    \E fail \in 0..MaxCacheSteps :
        \/ \E data \in CacheData : CacheUserEvents(data, fail)
        \/ GetUserEvents(fail)
        \/ \E ev \in CacheEvents : CacheSingleEvent(ev, fail)
        \/ \E id \in EventIds : GetSingleEvent(id, fail)
        \/ \E ev \in CacheEvents : UpdateEventInCache(ev, fail)
        \/ \E id \in EventIds : RemoveEventFromCache(id, fail)
        \/ CacheSyncToken(2, fail)
        \/ GetSyncToken(fail)
        \/ InvalidateUserCache(fail)
        \/ GetCacheStats(fail)

SpecCache == InitCache /\ [][NextCache]_vars

\* Notifications arriving at the receipt endpoint.
Receive(channel_id, resource_state, broker_up) ==
    LET Answered(r) ==
            /\ steps.ops < MaxReceipts
            /\ steps' = [steps EXCEPT !.ops = @ + 1]
            /\ queue' = r.queue
            /\ lastOp' = [NoOp EXCEPT !.op = "receipt", !.id = channel_id,
                                      !.arg = resource_state, !.ok = ~r.raised,
                                      !.http = r.http, !.path = r.status,
                                      !.fail = IF broker_up THEN 0 ELSE 1,
                                      !.after = [op |-> lastOp.op, arg |-> lastOp.arg,
                                                 id |-> lastOp.id, ok |-> lastOp.ok,
                                                 path |-> lastOp.path]]
            /\ UNCHANGED <<store, cache, remote, clock, subs, since, now, watching, maintenance_task, redis, tasks>>
    IN Answered(google_calendar_webhook(queue, channel_id, resource_state, broker_up))

\* What the worker may meet at the provider.
JobEnvs == {Served, Env(<<"500">>, <<>>)}

\* The worker runs the oldest job; a retried job goes back to the queue.
Work(services_ok, env) ==
    LET job == Head(queue)
        Reported(r) ==
            /\ steps.jobs < MaxJobs
            /\ steps' = [steps EXCEPT !.jobs = @ + 1]
            /\ r.w.clock <= MaxClock
            /\ store' = r.w.store
            /\ cache' = r.w.cache
            /\ remote' = r.w.remote
            /\ clock' = r.w.clock
            /\ subs' = r.subs
            /\ since' = Quiet
            /\ queue' = IF r.state = "RETRY"
                        THEN Append(Tail(queue), [job EXCEPT !.retries = @ + 1])
                        ELSE Tail(queue)
            /\ lastOp' = [Called("job", r.w, env) EXCEPT
                             !.id = job.channel_id, !.arg = job.resource_state,
                             !.ok = r.synced, !.http = r.sync.http, !.path = r.sync.path,
                             !.state = r.state, !.value = r.result,
                             !.retries = job.retries, !.countdown = r.countdown,
                             !.fail = IF services_ok THEN 0 ELSE 1]
            /\ UNCHANGED <<now, watching, maintenance_task, redis, tasks>>
    IN /\ queue # <<>>
       /\ Reported(run_task(World(store, cache, remote, clock), subs, job, services_ok, env))

NextReceipt ==
    \/ \E c \in ChannelHeaders, rs \in StateHeaders, up \in BOOLEAN : Receive(c, rs, up)
    \/ \E ok \in BOOLEAN, env \in JobEnvs : Work(ok, env)

SpecReceipt == Init /\ [][NextReceipt]_vars

---------------------------------------------------------------------------
(* Properties.  A handler call is one step; lastOp' is its record, the      *)
(* unprimed variables are the state it was made in.                        *)

Step(op) == steps'.ops = steps.ops + 1 /\ lastOp'.op = op

AllConfirmed(items) == \A k \in 1..Len(items) : items[k].status = "confirmed"

\* C1: when get_events makes its list call with a cursor and the provider
\* answers 410 (resource gone), get_events does not fail: it makes exactly
\* one further list call, without a cursor, and the stored and the cached
\* cursor are then the one that full sync returned.
C1_GoneTriggersOneFullResync ==
    (lastOp.op = "get_events" /\ lastOp.cursor # NoToken /\ lastOp.first = "410")
        => /\ lastOp.ok
           /\ lastOp.nreq = 2
           /\ lastOp.path = "full"
           /\ store.nextSyncToken = lastOp.res.nextSyncToken
           /\ cache.sync_token = lastOp.res.nextSyncToken

\* C2: a handler call whose provider requests are all answered 401, and
\* whose token refreshes succeed, has refreshed the access token exactly
\* once and sent exactly two requests (the original and one replay) when it
\* ends, and it ends in an error.
C2_OneRefreshOneReplay ==
    (lastOp.all401 /\ lastOp.refreshed)
        => lastOp.nref = 1 /\ lastOp.nreq = 2 /\ ~lastOp.ok

\* C3: from a store listing exactly E1 and E2 (both live) with a cursor, an
\* incremental get_events whose response is [E1 cancelled] with cursor T2
\* leaves the store listing exactly E2, E1 absent from the cached list and
\* from the per-event cache, and the cached cursor equal to T2, for both
\* values of fullResponse.
C3_CancelledLeavesStoreAndCache ==
    [][(/\ Step("get_events")
        /\ store.present /\ Ids(store.items) = {"E1", "E2"} /\ AllConfirmed(store.items)
        /\ lastOp'.path = "incremental"
        /\ Len(lastOp'.res.items) = 1
        /\ lastOp'.res.items[1].id = "E1"
        /\ lastOp'.res.items[1].status = "cancelled")
       => /\ lastOp'.ok
          /\ Ids(store'.items) = {"E2"}
          /\ ~HasId(cache'.events.items, "E1")
          /\ cache'.event["E1"] = NoEvent
          /\ cache'.sync_token = lastOp'.res.nextSyncToken]_vars

\* C4: after an incremental get_events, every item of the response that is
\* not cancelled is in the store with the returned content, whether or not
\* its id was stored before, and is in the per-event cache too.
C4_IncrementalUpserts ==
    (lastOp.op = "get_events" /\ lastOp.path = "incremental" /\ lastOp.ok)
        => \A k \in 1..Len(lastOp.res.items) :
              LET item == lastOp.res.items[k]
              IN item.status # "cancelled"
                    => /\ HasId(store.items, item.id)
                       /\ FirstWithId(store.items, item.id) = item
                       /\ cache.event[item.id] = item

\* C5: a get_events whose list call is made without a cursor and is answered
\* succeeds and leaves the stored document and the cached event list equal
\* to the response, and the stored and the cached cursor equal to the
\* response's.
C5_FullSyncReplaces ==
    (lastOp.op = "get_events" /\ lastOp.path = "full" /\ lastOp.res.present)
        => /\ lastOp.ok
           /\ store = lastOp.res
           /\ cache.events = lastOp.res
           /\ cache.sync_token = lastOp.res.nextSyncToken

\* C6: when a successful incremental get_events is followed, with no change
\* of the remote calendar in between, by another successful incremental
\* get_events, the second leaves the stored events as the first left them.
C6_SecondIncrementalSyncKeepsStore ==
    [][(/\ Step("get_events") /\ lastOp'.path = "incremental" /\ lastOp'.ok
        /\ lastOp.op = "get_events" /\ lastOp.path = "incremental" /\ lastOp.ok
        /\ ~since.remote)
       => store'.items = store.items]_vars

\* Two incremental syncs in a row, the first of which stored a cancellation.
C6_TwoIncrementalSyncs ==
    /\ lastOp.op = "get_events" /\ lastOp.path = "incremental" /\ lastOp.ok
    /\ lastOp.after.op = "get_events" /\ lastOp.after.path = "incremental" /\ lastOp.after.ok
    /\ ~lastOp.between.remote
    /\ since = Quiet
    /\ store.items # <<>> /\ ~AllConfirmed(store.items)

\* C7: when the stored etag of an event (and that of its cached copy, if
\* there is one) is older than the provider's, update_event sends its PATCH
\* with the stored etag as If-Match, fails with a conflict (409), and leaves
\* the store and the cache as they were.
C7_StaleEtagIsConflict ==
    [][(/\ Step("update_event")
        /\ store.present /\ HasId(store.items, lastOp'.id)
        /\ remote[lastOp'.id].status = "confirmed"
        /\ FirstWithId(store.items, lastOp'.id).etag < remote[lastOp'.id].etag
        /\ (cache.event[lastOp'.id] # NoEvent
               => cache.event[lastOp'.id].etag = FirstWithId(store.items, lastOp'.id).etag))
       => /\ lastOp'.sent = FirstWithId(store.items, lastOp'.id).etag
          /\ ~lastOp'.ok
          /\ lastOp'.http = 409
          /\ store' = store
          /\ cache' = cache]_vars

\* C8: in the state a successful update_event leaves, the store holds the
\* event, its stored record equals its per-event cache entry, and both equal
\* the resource the provider returned for the PATCH.
C8_StoreAndCacheAgreeAfterUpdate ==
    (lastOp.op = "update_event" /\ lastOp.ok /\ since = Quiet)
        => /\ store.present
           /\ HasId(store.items, lastOp.id)
           /\ FirstWithId(store.items, lastOp.id) = cache.event[lastOp.id]
           /\ cache.event[lastOp.id] = remote[lastOp.id]

\* E with the fields of an update request set to their new values.
WithFields(E, F) ==
    [E EXCEPT !.summary = IF F.summary # NoneField THEN F.summary ELSE @,
              !.location = IF F.location # NoneField THEN F.location ELSE @]

SameButEtag(a, b) == [a EXCEPT !.etag = 0] = [b EXCEPT !.etag = 0]

UpdateThenGet ==
    /\ Step("get_event")
    /\ lastOp.op = "update_event" /\ lastOp.ok
    /\ lastOp'.id = lastOp.id
    /\ since = Quiet

C10_DuplicateNotificationKeepsStore ==
    [][(/\ Step("webhook")
        /\ lastOp.op = "webhook"
        /\ lastOp'.id = lastOp.id /\ lastOp'.arg = lastOp.arg
        /\ ~since.remote)
       => store' = store /\ NoDuplicateIds(store'.items)]_vars

\* The same notification synchronised twice over a store that holds events.
C10_NotifiedTwice ==
    /\ lastOp.op = "webhook" /\ lastOp.ok
    /\ lastOp.after.op = "webhook" /\ lastOp.after.ok
    /\ lastOp.after.id = lastOp.id /\ lastOp.after.arg = lastOp.arg
    /\ ~lastOp.between.remote
    /\ store.present /\ store.items # <<>>

---------------------------------------------------------------------------
(* Properties of the subscription manager (SpecChannels) *)

\* Subscription records a step created.
NewSubs == {c \in DOMAIN subs : subs'[c].present /\ ~subs[c].present}

\* C11: a sweep removes the record of every subscription that expires
\* within the next 24 hours and creates exactly one new subscription of the
\* same user for each; and a sweep that runs no more than 12 hours after a
\* sweep leaves the subscriptions that sweep created as they are.
C11_SweepRenewsOnce ==
    [][Step("sweep")
       => /\ \A c \in ExpiringAt(subs, now) : ~subs'[c].present
          /\ Cardinality(NewSubs) = Cardinality(ExpiringAt(subs, now))
          /\ \A c \in NewSubs : subs'[c].user_id = UserId
          /\ (lastOp.op = "sweep" /\ now <= lastOp.at + 1)
                => \A c \in lastOp.created : subs'[c] = subs[c]]_vars

\* A sweep that followed, within 12 hours, a sweep that renewed ch1.
C11_SweptAfterRenewal ==
    /\ lastOp.op = "sweep" /\ lastOp.after.op = "sweep" /\ lastOp.after.arg = "created"
    /\ ~subs["ch1"].present
    /\ Cardinality(LiveAt(subs, UserId, now)) = 1

\* C12: a sweep deletes every subscription whose expiration is in the past
\* and renews none of them: the records it creates and the channels it
\* registers at the provider are as many as the subscriptions that expire
\* within the next 24 hours.
C12_SweepPurgesExpired ==
    [][Step("sweep")
       => /\ \A c \in ExpiredAt(subs, now) : ~subs'[c].present
          /\ watching' \ watching = NewSubs
          /\ (ExpiringAt(subs, now) = {} => NewSubs = {})]_vars

\* A sweep that found an expired subscription.
C12_SweptExpired ==
    /\ lastOp.op = "sweep" /\ lastOp.expired # {}
    /\ since = Quiet
    /\ \A c \in lastOp.expired : ~subs[c].present

\* C13: when the user has a subscription that has not expired,
\* setup_calendar_webhook registers no channel and creates no record, so
\* the user has at most one unexpired subscription afterwards.
C13_SetupReusesLiveSubscription ==
    [][(Step("setup") /\ LiveAt(subs, UserId, now) # {})
       => /\ lastOp'.ok
          /\ watching' = watching
          /\ subs' = subs
          /\ Cardinality(LiveAt(subs', UserId, now')) <= 1]_vars

---------------------------------------------------------------------------
(* Properties of the cache (Spec) *)

\* What the call recorded in lastOp' gives when made in the same store and
\* provider state with every cache key absent.
OutcomeWithoutCache ==
    LET Cold == World(store, EmptyCache, remote, clock)
        Outcome(r) == [ok |-> r.ok, http |-> r.http, store |-> r.w.store]
    IN CASE lastOp'.op = "get_events" ->
                Outcome(get_all_user_calendar_events(Cold, lastOp'.force, lastOp'.full, Served))
         [] lastOp'.op = "get_event" ->
                Outcome(get_event_from_id(Cold, lastOp'.id, Served))
         [] OTHER ->
                Outcome(update_event(Cold, lastOp'.id, lastOp'.update, Served))

\* C14: a get_events, get_event or update_event call has the same outcome
\* (success, or the same error status) and leaves the same store as the same
\* call made with an empty cache.
C14_SameWithoutCache ==
    [][(Step("get_events") \/ Step("get_event") \/ Step("update_event"))
       => [ok |-> lastOp'.ok, http |-> lastOp'.http, store |-> store']
              = OutcomeWithoutCache]_vars

\* C16: when the event is not in the per-event cache, the store holds it
\* and the provider's copy has the stored etag, get_event sends one GET
\* with that etag, succeeds with the stored copy, writes the copy to the
\* per-event cache and leaves the store as it was.
C16_NotModifiedReturnsStoredCopy ==
    [][(/\ Step("get_event")
        /\ get_single_event(cache, lastOp'.id) = NoEvent
        /\ ~repo_event_missing(store, lastOp'.id)
        /\ remote[lastOp'.id].etag = get_etag_from_id(store, lastOp'.id))
       => /\ lastOp'.nreq = 1
          /\ lastOp'.ok
          /\ [lastOp'.event EXCEPT !.status = "confirmed"]
                 = [repo_get_event_from_id(store, lastOp'.id) EXCEPT !.status = "confirmed"]
          /\ get_single_event(cache', lastOp'.id) = repo_get_event_from_id(store, lastOp'.id)
          /\ store' = store]_vars

\* C17: when the event is in the per-event cache, get_event sends no
\* request, leaves the store as it was and returns the cached event with
\* its status reading "from_cache".
C17_CacheHitIsTagged ==
    [][(Step("get_event") /\ get_single_event(cache, lastOp'.id) # NoEvent)
       => /\ lastOp'.ok
          /\ lastOp'.nreq = 0
          /\ store' = store
          /\ [lastOp'.event EXCEPT !.status = "from_cache"]
                 = [get_single_event(cache, lastOp'.id) EXCEPT !.status = "from_cache"]
          /\ lastOp'.event.status = "from_cache"]_vars

---------------------------------------------------------------------------
(* Properties of the webhook receipt endpoint (SpecReceipt) *)

\* C18: a notification without the channel-id header or without the
\* resource-state header is answered with a 4xx status and queues no job.
C18_MissingHeaderIsClientError ==
    [][(Step("receipt") /\ (lastOp'.id = NoHeader \/ lastOp'.arg = NoHeader))
       => /\ lastOp'.http \in 400..499
          /\ queue' = queue]_vars

\* C19: a notification with both required headers is answered "accepted"
\* or "ignored" and never with a 5xx status, also when the broker is
\* unreachable.
C19_ReceiptNever5xx ==
    [][(Step("receipt") /\ lastOp'.id # NoHeader /\ lastOp'.arg # NoHeader)
       => /\ lastOp'.http < 500
          /\ lastOp'.path \in {"accepted", "ignored"}]_vars

\* C27: a successful incremental get_events with fullResponse returns the
\* stored document as it is after the cursor and the delta were written to
\* it, and writes that same document to the cached list, so the cached list
\* equals the stored document when the call returns.
C27_IncrementalReturnsStoredSet ==
    [][(Step("get_events") /\ lastOp'.path = "incremental" /\ lastOp'.full /\ lastOp'.ok)
       => /\ store' = LET st1 == update_synctoken(store, lastOp'.res.nextSyncToken)
                      IN IF lastOp'.res.items # <<>>
                         THEN update_items(st1, lastOp'.res.items)
                         ELSE st1
          /\ lastOp'.ret = store'
          /\ get_user_events(cache') = store']_vars

\* An incremental get_events with fullResponse that received a change.
C27_IncrementalWithDelta ==
    /\ lastOp.op = "get_events" /\ lastOp.path = "incremental" /\ lastOp.full /\ lastOp.ok
    /\ lastOp.res.items # <<>>
    /\ since = Quiet
    /\ get_user_events(cache) = store

\* C26: get_events without forceFullSync, with fullResponse and a snapshot
\* in the cache returns the snapshot, sends no request and leaves store,
\* cache and provider as they were; get_events with forceFullSync never
\* returns from the cache and sends its list call without a cursor.
C26_SnapshotShortCircuit ==
    [][/\ (Step("get_events") /\ ~lastOp'.force /\ lastOp'.full
              /\ get_user_events(cache).present)
            => /\ lastOp'.ok /\ lastOp'.path = "cached"
               /\ lastOp'.ret = get_user_events(cache)
               /\ lastOp'.nreq = 0
               /\ store' = store /\ cache' = cache /\ remote' = remote
       /\ (Step("get_events") /\ lastOp'.force)
            => /\ lastOp'.path = "full"
               /\ lastOp'.nreq >= 1
               /\ lastOp'.token = NoToken]_vars

\* A forced get_events was made while the cache held a snapshot and a
\* cursor, after a get_events that was served from that snapshot.
C26_ForcedAfterCached ==
    /\ lastOp.op = "get_events" /\ lastOp.force /\ lastOp.full /\ lastOp.ok
    /\ lastOp.after.op = "get_events" /\ lastOp.after.path = "cached"
    /\ ~lastOp.between.expired

\* C25: update_event of an event it can read, with every field None, fails
\* with status 400 and sends no PATCH.
C25_NoFieldsIsClientError ==
    [][(/\ Step("update_event")
        /\ lastOp'.update = NoUpdate
        /\ get_single_event(cache, lastOp'.id) # NoEvent)
       => /\ ~lastOp'.ok
          /\ lastOp'.http = 400
          /\ lastOp'.sent = 0
          /\ remote' = remote]_vars

\* C24: bulk_update_events returns, and its results are one per item in
\* the order of the items, each a success or an error for that item's id.
C24_BulkIsolatesFailures ==
    [][Step("bulk")
       => /\ lastOp'.ok
          /\ Len(lastOp'.results) = Len(lastOp'.batch)
          /\ \A k \in 1..Len(lastOp'.batch) :
                /\ lastOp'.results[k].event_id = lastOp'.batch[k].event_id
                /\ lastOp'.results[k].status \in {"success", "error"}]_vars

\* C22: when the provider fails the stop-channel call, unsubscribe still
\* deletes the subscription record; and a sweep whose first stop-channel
\* call fails still removes the record of every subscription that expires
\* within 24 hours and creates a replacement for each.
C22_StopFailureStillDeletes ==
    [][/\ (Step("unsubscribe") /\ subs[lastOp'.id].present /\ lastOp'.first = "500")
            => ~subs'[lastOp'.id].present
       /\ (Step("sweep") /\ lastOp'.first = "500")
            => /\ \A c \in ExpiringAt(subs, now) : ~subs'[c].present
               /\ Cardinality(NewSubs) = Cardinality(ExpiringAt(subs, now))]_vars

\* C23: the maintenance loop alternates cycles and sleeps; once its task
\* is cancelled (in a cycle, in the interval sleep or in the back-off sleep)
\* it completes no further cycle and starts no sleep, and it terminates.
C23_CancelledLoopTerminates ==
    /\ [][/\ maintenance_task.cancel => maintenance_task'.sweeps = maintenance_task.sweeps /\ maintenance_task'.pc \in {maintenance_task.pc, "done"}
          /\ maintenance_task.pc = "done" => maintenance_task' = maintenance_task]_vars
    /\ (maintenance_task.cancel ~> maintenance_task.pc = "done")

\* The loop was cancelled in its back-off sleep after a cycle it completed.
C23_CancelledInBackoff ==
    maintenance_task.pc = "backoff" /\ maintenance_task.cancel /\ maintenance_task.sweeps > 0

\* An attempt of the job on a notification it processes did not complete
\* the processing.
JobStep == steps'.jobs = steps.jobs + 1 /\ lastOp'.op = "job"
AttemptFailed == lastOp'.arg \in {"exists", "sync"} /\ ~lastOp'.ok

\* C21: an attempt of the webhook job whose processing fails is never
\* reported as completed: while the job was retried fewer than 3 times it
\* is retried after 60 * 2^retries seconds (60, 120, 240), and after the
\* third retry it is reported as failed.
C21_FailedAttemptIsRetried ==
    [][(JobStep /\ AttemptFailed)
       => /\ lastOp'.state # "SUCCESS"
          /\ lastOp'.retries < max_retries
                => lastOp'.state = "RETRY"
                   /\ lastOp'.countdown = RetryCountdown(lastOp'.retries)
          /\ lastOp'.retries = max_retries => lastOp'.state = "FAILURE"]_vars

---------------------------------------------------------------------------
(* Properties of the CacheLayer over a failing client (SpecCache) *)

\* C29: when invalidate_user_cache(u) has returned True, none of u's keys
\* (event list, single events, cursor, calendar list) is present, and every
\* key of another user is present exactly if it was before.
C29_InvalidateClearsOnlyTheUser ==
    [][Step("invalidate_user_cache")
       => /\ \A k \in UserKeys(lastOp'.batch) : k \notin redis'
          /\ \A k \in AllKeys \ UserKeys(lastOp'.batch) : k \in redis' <=> k \in redis]_vars

\* User 1 was invalidated while user 12 had single events cached.
C29_InvalidatedBesideOtherUser ==
    /\ lastOp.op = "invalidate_user_cache" /\ lastOp.batch = <<"1">>
    /\ \A id \in EventIds : EventKey(<<"1", "2">>, id) \in redis
    /\ UserKeys(<<"1">>) \cap redis = {}

\* C30: a handler call whose first provider request is answered with a
\* server error has refreshed no token and sent no second request, and one
\* whose first request is answered 401 and whose token refresh fails has
\* refreshed once and sent no second request, whatever the text of the
\* error says.
C30_TextDoesNotDecide ==
    /\ lastOp.first \in {"500", "500u"} => lastOp.nref = 0 /\ lastOp.nreq = 1
    /\ (lastOp.first = "401" /\ ~lastOp.refreshed) => lastOp.nref = 1 /\ lastOp.nreq = 1

\* C31: a notification carrying both required headers whose resource state
\* is neither "exists" nor "sync" is answered 200 with status "ignored",
\* leaves the queue, the store, the cache and the subscriptions as they
\* were, and no job with such a resource state is ever in the queue.
C31_UnrecognizedStateIgnored ==
    /\ [][(Step("receipt") /\ lastOp'.id # NoHeader
              /\ lastOp'.arg \notin {NoHeader, "exists", "sync"})
          => /\ lastOp'.ok /\ lastOp'.http = 200 /\ lastOp'.path = "ignored"
             /\ UNCHANGED <<queue, store, cache, subs>>]_vars
    /\ [](\A k \in 1..Len(queue) : queue[k].resource_state \in {"exists", "sync"})

\* A "not_exists" notification was ignored while an accepted job waits.
C31_IgnoredBesideQueuedJob ==
    /\ lastOp.op = "receipt" /\ lastOp.arg = "not_exists" /\ lastOp.id # NoHeader
    /\ lastOp.path = "ignored"
    /\ queue # <<>>

\* C32: in every handler call, a replayed request carries a token other
\* than the one of the request before it, namely the one the refresh wrote
\* to the stored credential, and no replay is sent once a token refresh of
\* the call has failed.
C32_ReplayCarriesStoredRefresh ==
    \A k \in 1..Len(lastOp.carried) :
        lastOp.carried[k].replay
            => /\ k > 1
               /\ lastOp.carried[k].token # lastOp.carried[k - 1].token
               /\ lastOp.carried[k].token > 0
               /\ ~lastOp.carried[k].failed

\* C33: under every reply script and every refresh script, a guarded
\* provider call ends (returning or raising) after at most three provider
\* requests and at most two token refreshes.
C33_GuardedCallIsBounded ==
    lastOp.op = "request" => lastOp.nreq <= 3 /\ lastOp.nref <= 2

\* A guarded call that ended in an error after three requests and two refreshes.
C33_ThreeRequestsTwoRefreshes ==
    lastOp.op = "request" /\ lastOp.nreq = 3 /\ lastOp.nref = 2 /\ ~lastOp.ok

\* C34: after every get_events call that received a list response, if the
\* stored or the cached cursor is the one of that response, every item of
\* the response is in the store as the response gave it (a cancelled item
\* at most as cancelled); and when the call failed after receiving the
\* response, the stored and the cached cursor are the ones from before.
C34_CursorNotAheadOfStore ==
    [][(Step("get_events") /\ lastOp'.res.present)
       => LET res == lastOp'.res
          IN /\ (store'.nextSyncToken = res.nextSyncToken
                    \/ cache'.sync_token = res.nextSyncToken)
                 => \A k \in 1..Len(res.items) :
                       IF res.items[k].status = "cancelled"
                       THEN HasId(store'.items, res.items[k].id)
                               => FirstWithId(store'.items, res.items[k].id) = res.items[k]
                       ELSE /\ HasId(store'.items, res.items[k].id)
                            /\ FirstWithId(store'.items, res.items[k].id) = res.items[k]
             /\ ~lastOp'.ok
                 => /\ store'.nextSyncToken = store.nextSyncToken
                    /\ cache'.sync_token = cache.sync_token]_vars

\* C35: when two syncs of the same user have both run to completion, in
\* whatever order their steps were taken, the cached cursor, if there is
\* one, equals the stored cursor.
C35_CursorsAgreeAfterRace ==
    (\A p \in Procs : tasks[p].pc = "done")
        => (cache.sync_token # NoToken => cache.sync_token = store.nextSyncToken)

\* C36: when an update or removal of E1 and an update or removal of E2
\* in the cache have both completed, in whatever order their steps were
\* taken, the cached list holds each updated event as it was given and
\* holds no removed event.
C36_NoLostUpdateInCachedList ==
    (\A p \in Procs : tasks[p].pc = "done" /\ tasks[p].op # "none")
        => \A p \in Procs :
              IF tasks[p].op = "update_event_in_cache"
              THEN /\ HasId(cache.events.items, tasks[p].id)
                   /\ FirstWithId(cache.events.items, tasks[p].id) = tasks[p].event
              ELSE ~HasId(cache.events.items, tasks[p].id)

\* C37: after a get_events call that completed a full sync, every event
\* the per-event cache holds is among the items of the full-sync response.
C37_FullSyncLeavesNoStaleEntry ==
    (lastOp.op = "get_events" /\ lastOp.path = "full" /\ lastOp.ok)
        => \A id \in EventIds :
              get_single_event(cache, id) # NoEvent => HasId(lastOp.res.items, id)

\* C38: a maintenance sweep leaves a user who had an unexpired subscription
\* before it with an unexpired subscription after it, also when the provider
\* fails a request of the sweep.
C38_SweepKeepsUserSubscribed ==
    [][Step("sweep")
       => (LiveAt(subs, UserId, now) # {} => LiveAt(subs', UserId, now') # {})]_vars

\* C39: a forced full sync whose response equals the stored document
\* (same items, same cursor) succeeds, leaves the store as it was, and puts
\* the response into the cached list and its cursor into the cache.
C39_UnchangedFullSyncSucceeds ==
    [][(Step("get_events") /\ lastOp'.force /\ store.present /\ lastOp'.res = store)
       => /\ lastOp'.ok
          /\ store' = store
          /\ get_user_events(cache') = lastOp'.res
          /\ get_sync_token(cache') = lastOp'.res.nextSyncToken]_vars

\* C28: on a cached list, update_event_in_cache whose commands all succeed
\* replaces the entry with the event's id at its position when there is
\* one and appends the event otherwise, remove_event_from_cache filters the
\* id out, and either call, failing or not, leaves a list without duplicate
\* ids without duplicate ids.
C28_CachedListOneEntryPerId ==
    [][(Step("update_event_in_cache") \/ Step("remove_event_from_cache"))
       => LET old == get_user_events(cache).items
              new == get_user_events(cache').items
              id  == lastOp'.id
          IN /\ (NoDuplicateIds(old) => NoDuplicateIds(new))
             /\ (get_user_events(cache).present /\ ~lastOp'.failed)
                  => IF lastOp'.op = "remove_event_from_cache"
                     THEN /\ ~HasId(new, id)
                          /\ new = SelectSeq(old, LAMBDA e : e.id # id)
                     ELSE IF HasId(old, id)
                     THEN /\ Len(new) = Len(old)
                          /\ \A k \in 1..Len(old) :
                                IF old[k].id = id
                                THEN new[k] = get_single_event(cache', id)
                                ELSE new[k] = old[k]
                     ELSE /\ Len(new) = Len(old) + 1
                          /\ new[Len(new)] = get_single_event(cache', id)
                          /\ new[Len(new)].id = id
                          /\ SubSeq(new, 1, Len(old)) = old]_vars

\* update_event_in_cache replaced the first of two entries of the cached list.
C28_ReplacedInPlace ==
    /\ lastOp.op = "update_event_in_cache" /\ lastOp.id = "E1" /\ ~lastOp.failed
    /\ Len(get_user_events(cache).items) = 2
    /\ get_user_events(cache).items[1] = get_single_event(cache, "E1")
    /\ get_user_events(cache).items[1].etag = 2


FailureValues == {"None", "False", "empty"}

\* C15 as stated: a CacheLayer call during which a client command failed
\* raises nothing and returns None, False or an empty value.
C15_FailedCallReturnsFailureValue ==
    lastOp.failed => ~lastOp.raised /\ lastOp.value \in FailureValues

\* C15: no CacheLayer call raises; a call during which a client command
\* failed returns None, False or an empty value, except that
\* cache_user_events returns True when only the write of the per-event keys
\* failed and update_event_in_cache returns True when only its write of the
\* per-event key failed.
C15_FailOpen ==
    /\ ~lastOp.raised
    /\ lastOp.failed
         => \/ lastOp.value \in FailureValues
            \/ lastOp.op = "cache_user_events" /\ lastOp.fail = 2 /\ lastOp.value = "True"
            \/ lastOp.op = "update_event_in_cache" /\ lastOp.fail = 1
                  /\ lastOp.value = "True"

\* get_cache_stats met a failing client command and returned the empty
\* dictionary.
C15_StatsFailed ==
    lastOp.op = "get_cache_stats" /\ lastOp.failed /\ lastOp.value = "empty"

====
